---------------------------- MODULE Spec2Model ----------------------------
(***************************************************************************)
(* A model of tap-openmeteo's incremental extraction engine:               *)
(*   - OpenMeteoStream.get_url_params and the six streams' overrides       *)
(*     (client.py, streams.py): configuration + location context +        *)
(*     checkpoint + clock  |->  query parameter set;                       *)
(*   - the six parse_response generators: response |-> flat records;       *)
(*   - get_records / the per-location run of one stream instance, with its *)
(*     shared attribute _current_context.                                  *)
(*                                                                         *)
(* Python dicts are functions whose DOMAIN is the set of keys present, so  *)
(* "key absent" and "key present" are different values.  Strings that the  *)
(* code parses or formats (ISO8601 timestamps) are records of their        *)
(* lexical parts; a datetime is a record of its fields; the clock is a     *)
(* number of minutes since day 0, 00:00 UTC.                               *)
(***************************************************************************)
EXTENDS Integers, Sequences, FiniteSets, TLC

VARIABLES
    config,           \* self.config: the tap's settings (a dict)
    stream,           \* the stream instance's name
    now,              \* datetime.now(timezone.utc), minutes since day 0
    tzlocal,          \* the process's local UTC offset in minutes
    state,            \* per location: get_context_state(context) (a dict)
    current_context,  \* self._current_context (EmptyDict before the first run)
    pc,               \* per location: position of its run
    params,           \* per location: the parameter set of its request
    upstream,         \* per location: the JSON body the API answers with
    response,         \* per location: the JSON body received
    location_name,    \* per location: parse_response's local location_name
    idx,              \* per location: number of records already yielded
    emitted,          \* the records handed to the host, in order
    run,              \* per location: number of runs completed before this one
    tap_pc,           \* the tap's position: CONFIGURED, DISCOVERED, SYNC
    discovered,       \* the names of the stream instances discover_streams returned
    warnings,         \* the stream names logged as unknown, in order
    stream_partitions \* per discovered stream, the value of its partitions property

tapvars == <<tap_pc, discovered, warnings, stream_partitions>>

vars == <<config, stream, now, tzlocal, state, current_context, pc, params,
          upstream, response, location_name, idx, emitted, run, tapvars>>

-----------------------------------------------------------------------------
(* Bounds of the model *)

\* The clock values tried are on day NowDay (and the day after).
NowDay == 40
\* Checkpoint dates range over NowDay - MaxAge .. NowDay.
MaxAge == 1
\* The longest time array of a response.
MaxTimes == 2
\* The longest list of configured locations.
MaxLocations == 2
\* The longest streams_to_sync list.
MaxSelected == 2

-----------------------------------------------------------------------------
(* Python dict, truthiness *)

EmptyDict == << >>

Get(d, k, default) == IF k \in DOMAIN d THEN d[k] ELSE default

Put(d, k, v) == [x \in (DOMAIN d) \cup {k} |-> IF x = k THEN v ELSE d[x]]

Pop(d, k) == [x \in (DOMAIN d) \ {k} |-> d[x]]

\* `if d:` for a dict or a list
Truthy(d) == DOMAIN d # {}

-----------------------------------------------------------------------------
(* Strings and datetimes *)

\* An ISO8601-shaped string, by its lexical parts:
\*   kind "date"    YYYY-MM-DD
\*   kind "minute"  YYYY-MM-DDTHH:MM[tz]
\*   kind "second"  YYYY-MM-DDTHH:MM:SS[tz]
\*   kind "garbage" a string that is no timestamp; kind "empty" is "".
\* tz is the literal suffix: "", "Z", "+00:00" or "+02:00".
IsoStr(kind, day, hh, mm, ss, tz) ==
    [ty |-> "str", kind |-> kind, day |-> day, hh |-> hh, mm |-> mm,
     ss |-> ss, tz |-> tz]

Garbage == IsoStr("garbage", 0, 0, 0, 0, "")
EmptyStr == IsoStr("empty", 0, 0, 0, 0, "")

\* A JSON integer
IntVal(n) == [ty |-> "int", v |-> n]

isinstance_str(v) == v.ty = "str"

\* truthiness of a JSON scalar: "" and 0 are falsy
TruthyVal(v) == IF v.ty = "str" THEN v.kind # "empty" ELSE v.v # 0

\* s.replace("Z", "+00:00")
ReplaceZ(s) == IF s.tz = "Z" THEN [s EXCEPT !.tz = "+00:00"] ELSE s

\* datetime.fromisoformat(s) raises ValueError
fromisoformat_raises(s) ==
    \/ s.kind \notin {"date", "minute", "second"}
    \/ s.tz = "Z"
    \/ s.hh > 23 \/ s.mm > 59 \/ s.ss > 59

\* datetime.fromisoformat(s), when it does not raise: the fields as written,
\* tzinfo set when the string carries an offset; a date alone is midnight.
fromisoformat(s) ==
    IF s.kind = "date"
    THEN [day |-> s.day, hh |-> 0, mm |-> 0, ss |-> 0, tzinfo |-> ""]
    ELSE [day |-> s.day, hh |-> s.hh, mm |-> s.mm,
          ss |-> IF s.kind = "second" THEN s.ss ELSE 0, tzinfo |-> s.tz]

\* a format string that leaves the minutes out, "%Y-%m-%dT%H:00"
strftime_hour_no_minutes(dt) == IsoStr("minute", dt.day, dt.hh, 0, 0, "")

\* dt.strftime("%Y-%m-%dT%H:%M"): the datetime's own fields, no conversion
strftime_hour(dt) == IsoStr("minute", dt.day, dt.hh, dt.mm, 0, "")

\* dt.strftime("%Y-%m-%d")
strftime_date(dt) == IsoStr("date", dt.day, 0, 0, 0, "")

\* the aware UTC datetime of a clock value (minutes since day 0)
utc_datetime(t) ==
    [day |-> t \div 1440, hh |-> (t % 1440) \div 60, mm |-> t % 60, ss |-> 0,
     tzinfo |-> "+00:00"]

\* ",".join(list): a string made of the items in order
CommaJoin(list) == [ty |-> "str", csv |-> list]

\* a slice that keeps the whole list
FirstOnly_all(list) == list

\* list[:1]
FirstOnly(list) == IF Len(list) = 0 THEN << >> ELSE <<list[1]>>

\* JSON null / None
Null == [ty |-> "null"]

\* a plain JSON string
Str(x) == [ty |-> "str", s |-> x]

\* int(dt.timestamp()): epoch seconds; a naive datetime is taken in the
\* process's local timezone (offset `local` minutes), an aware one in its own
timestamp(dt, local) ==
    LET offset == IF dt.tzinfo = "" THEN local
                  ELSE IF dt.tzinfo = "+02:00" THEN 120 ELSE 0
    IN  ((dt.day * 1440 + dt.hh * 60 + dt.mm) - offset) * 60 + dt.ss

\* datetime.fromtimestamp(secs, tz=timezone.utc).isoformat()
fromtimestamp_isoformat(secs) ==
    LET m == secs \div 60
    IN  IsoStr("second", m \div 1440, (m % 1440) \div 60, m % 60, secs % 60, "+00:00")

\* a clock read to the hour only
now_isoformat_hour(t) == IsoStr("second", t \div 1440, (t % 1440) \div 60, 0, 0, "+00:00")

\* datetime.now(timezone.utc).isoformat()
now_isoformat(t) == IsoStr("second", t \div 1440, (t % 1440) \div 60, t % 60, 0, "+00:00")

\* the elements of a list
Range(list) == {list[i] : i \in DOMAIN list}

-----------------------------------------------------------------------------
(* client.py: OpenMeteoStream.get_url_params, block by block *)

\* a location block that tests the elevation for truth (`if elevation:`)
location_params_truthy_elevation(cfg, context) ==
    LET locations == Get(cfg, "locations", << >>)
        loc0 == locations[1]
        place(src) ==
            LET a == Put(Put(EmptyDict, "latitude", src["latitude"]),
                         "longitude", src["longitude"])
            IN  IF "elevation" \in DOMAIN src /\ src["elevation"] # 0
                THEN Put(a, "elevation", src["elevation"]) ELSE a
    IN  IF Truthy(context)
        THEN IF "timezone" \in DOMAIN context /\ context["timezone"] # ""
             THEN Put(place(context), "timezone", context["timezone"])
             ELSE Put(place(context), "timezone", Get(cfg, "timezone", "auto"))
        ELSE IF Len(locations) > 0
             THEN Put(place(loc0), "timezone",
                      Get(loc0, "timezone", Get(cfg, "timezone", "auto")))
             ELSE EmptyDict

\* Location parameters from context; `context` is EmptyDict for None.
location_params(cfg, context) ==
    LET locations == Get(cfg, "locations", << >>)
        loc0 == locations[1]
    IN  IF Truthy(context)
        THEN LET a == Put(Put(EmptyDict, "latitude", context["latitude"]),
                          "longitude", context["longitude"])
                 \* Optional elevation override
                 b == IF "elevation" \in DOMAIN context
                      THEN Put(a, "elevation", context["elevation"])
                      ELSE a
             \* Per-location timezone override
             IN  IF "timezone" \in DOMAIN context /\ context["timezone"] # ""
                 THEN Put(b, "timezone", context["timezone"])
                 ELSE Put(b, "timezone", Get(cfg, "timezone", "auto"))
        \* Fallback to first location if no context
        ELSE IF Len(locations) > 0
             THEN LET a == Put(Put(EmptyDict, "latitude", loc0["latitude"]),
                               "longitude", loc0["longitude"])
                      b == IF "elevation" \in DOMAIN loc0
                           THEN Put(a, "elevation", loc0["elevation"])
                           ELSE a
                  IN  Put(b, "timezone",
                          Get(loc0, "timezone", Get(cfg, "timezone", "auto")))
             ELSE EmptyDict

\* a unit block that sends wind_speed_unit whenever it is configured
unit_params_explicit(cfg, p) ==
    LET p2 == IF Get(cfg, "temperature_unit", "celsius") = "fahrenheit"
              THEN Put(p, "temperature_unit", "fahrenheit") ELSE p
        p3 == IF "wind_speed_unit" \in DOMAIN cfg
              THEN Put(p2, "wind_speed_unit", cfg["wind_speed_unit"]) ELSE p2
        p4 == IF Get(cfg, "precipitation_unit", "mm") # "mm"
              THEN Put(p3, "precipitation_unit", cfg["precipitation_unit"]) ELSE p3
    IN  IF Get(cfg, "timeformat", "iso8601") # "iso8601"
        THEN Put(p4, "timeformat", cfg["timeformat"]) ELSE p4

\* Unit configuration
unit_params(cfg, p) ==
    LET temp_unit == Get(cfg, "temperature_unit", "celsius")
        p2 == IF temp_unit = "fahrenheit"
              THEN Put(p, "temperature_unit", "fahrenheit") ELSE p
        wind_unit == Get(cfg, "wind_speed_unit", "kmh")
        p3 == IF wind_unit # "kmh" THEN Put(p2, "wind_speed_unit", wind_unit) ELSE p2
        precip_unit == Get(cfg, "precipitation_unit", "mm")
        p4 == IF precip_unit # "mm"
              THEN Put(p3, "precipitation_unit", precip_unit) ELSE p3
        timeformat == Get(cfg, "timeformat", "iso8601")
    IN  IF timeformat # "iso8601" THEN Put(p4, "timeformat", timeformat) ELSE p4

\* Model selection
model_params(cfg, p) ==
    LET models == Get(cfg, "models", << >>)
    IN  IF Len(models) > 0 THEN Put(p, "models", CommaJoin(models)) ELSE p

\* Grid cell selection
cell_selection_params(cfg, p) ==
    LET cell_selection == Get(cfg, "cell_selection", "land")
    IN  IF cell_selection # "land" THEN Put(p, "cell_selection", cell_selection) ELSE p

\* API key for commercial use (`if api_key:`: set and not "")
api_key_params(cfg, p) ==
    IF "api_key" \in DOMAIN cfg /\ cfg["api_key"] # ""
    THEN Put(p, "apikey", cfg["api_key"]) ELSE p

\* a solar block that tests the settings for truth (`if tilt:`)
solar_params_truthy(cfg, p) ==
    LET p1 == IF "tilt" \in DOMAIN cfg /\ cfg["tilt"] # 0
              THEN Put(p, "tilt", cfg["tilt"]) ELSE p
    IN  IF "azimuth" \in DOMAIN cfg /\ cfg["azimuth"] # 0
        THEN Put(p1, "azimuth", cfg["azimuth"]) ELSE p1

\* Solar radiation panel configuration
solar_params(cfg, p) ==
    LET p1 == IF "tilt" \in DOMAIN cfg THEN Put(p, "tilt", cfg["tilt"]) ELSE p
    IN  IF "azimuth" \in DOMAIN cfg THEN Put(p1, "azimuth", cfg["azimuth"]) ELSE p1

OpenMeteoStream_get_url_params(cfg, context) ==
    solar_params(cfg,
      api_key_params(cfg,
        cell_selection_params(cfg,
          model_params(cfg,
            unit_params(cfg,
              location_params(cfg, context))))))

\* OpenMeteoStream.get_location_contexts: one context per configured location
get_location_contexts(cfg) ==
    LET locations == Get(cfg, "locations", << >>)
        ctx(location) ==
            LET a == [location_name |-> location["name"],
                      latitude |-> location["latitude"],
                      longitude |-> location["longitude"]]
                b == IF "elevation" \in DOMAIN location
                     THEN Put(a, "elevation", location["elevation"]) ELSE a
            \* `if location.get("timezone"):` set and not ""
            IN  IF "timezone" \in DOMAIN location /\ location["timezone"] # ""
                THEN Put(b, "timezone", location["timezone"]) ELSE b
    IN  [i \in 1..Len(locations) |-> ctx(locations[i])]

\* a partitions property that returns the list even when it is empty
partitions_keep_empty(cfg) ==
    [is_none |-> FALSE, contexts |-> get_location_contexts(cfg)]

\* OpenMeteoStream.partitions: `self.get_location_contexts() or None`; the
\* value is None (is_none) or the list of contexts
partitions(cfg) ==
    LET contexts == get_location_contexts(cfg)
    IN  IF Len(contexts) > 0
        THEN [is_none |-> FALSE, contexts |-> contexts]
        ELSE [is_none |-> TRUE, contexts |-> << >>]

-----------------------------------------------------------------------------
(* streams.py: the default variable lists *)

DefaultHourlyVars ==
    <<"temperature_2m", "relative_humidity_2m", "precipitation", "weather_code">>
DefaultDailyVars ==
    <<"weather_code", "temperature_2m_max", "temperature_2m_min", "precipitation_sum">>
DefaultCurrentVars ==
    <<"temperature_2m", "relative_humidity_2m", "apparent_temperature", "is_day",
      "precipitation", "weather_code", "cloud_cover", "wind_speed_10m",
      "wind_direction_10m">>
DefaultMinutely15Vars == <<"temperature_2m", "precipitation", "weather_code">>

\* `state and state.get("replication_key_value")`
HasReplicationValue(st) ==
    /\ Truthy(st)
    /\ "replication_key_value" \in DOMAIN st
    /\ TruthyVal(st["replication_key_value"])

\* params.pop(k, None) for the four count keys
PopCounts(p) ==
    Pop(Pop(Pop(Pop(p, "forecast_hours"), "past_hours"), "forecast_days"), "past_days")

-----------------------------------------------------------------------------
(* streams.py: WeatherForecastStream.get_url_params *)

WeatherForecastStream_get_url_params(cfg, context, st, t) ==
    LET p0 == OpenMeteoStream_get_url_params(cfg, context)
        \* Time range: prefer hours over days when configured
        p1 == IF "forecast_hours" \in DOMAIN cfg
              THEN Put(p0, "forecast_hours", cfg["forecast_hours"])
              ELSE Put(p0, "forecast_days", Get(cfg, "forecast_days", 7))
        p2 == IF "past_hours" \in DOMAIN cfg
              THEN Put(p1, "past_hours", cfg["past_hours"])
              ELSE Put(p1, "past_days", Get(cfg, "past_days", 0))
        \* Request at least one variable to get metadata
        hourly_vars == Get(cfg, "hourly_variables", <<"temperature_2m">>)
    IN  IF Len(hourly_vars) > 0
        THEN Put(p2, "hourly", CommaJoin(FirstOnly(hourly_vars)))
        ELSE p2

-----------------------------------------------------------------------------
(* streams.py: WeatherHourlyStream.get_url_params *)

\* a time range that sends the day count even when the hour count is set
WeatherHourlyStream_time_range_both(cfg, p) ==
    LET p1 == Put(p, "forecast_days", Get(cfg, "forecast_days", 7))
        p2 == IF "forecast_hours" \in DOMAIN cfg
              THEN Put(p1, "forecast_hours", cfg["forecast_hours"]) ELSE p1
    IN  IF "past_hours" \in DOMAIN cfg
        THEN Put(p2, "past_hours", cfg["past_hours"])
        ELSE Put(p2, "past_days", Get(cfg, "past_days", 0))

\* Time range: prefer hours over days when configured
WeatherHourlyStream_time_range(cfg, p) ==
    LET p1 == IF "forecast_hours" \in DOMAIN cfg
              THEN Put(p, "forecast_hours", cfg["forecast_hours"])
              ELSE Put(p, "forecast_days", Get(cfg, "forecast_days", 7))
    IN  IF "past_hours" \in DOMAIN cfg
        THEN Put(p1, "past_hours", cfg["past_hours"])
        ELSE Put(p1, "past_days", Get(cfg, "past_days", 0))

\* an incremental block that sets start_hour before it parses the checkpoint
WeatherHourlyStream_incremental_early(cfg, p, st, t) ==
    LET last_sync == st["replication_key_value"]
        s == ReplaceZ(last_sync)
        q1 == Put(p, "start_hour", last_sync)
        q2 == Put(Put(p, "start_hour", strftime_hour(fromisoformat(s))), "end_hour",
                  strftime_hour(utc_datetime(t + 60 * Get(cfg, "forecast_hours", 48))))
    IN  IF HasReplicationValue(st) /\ isinstance_str(last_sync)
        THEN IF fromisoformat_raises(s) THEN q1 ELSE PopCounts(q2)
        ELSE p

\* Check for incremental state
WeatherHourlyStream_incremental(cfg, p, st, t) ==
    LET last_sync == st["replication_key_value"]
        s == ReplaceZ(last_sync)
        dt == fromisoformat(s)
        q1 == Put(p, "start_hour", strftime_hour(dt))
        \* end_hour is required when start_hour is set
        forecast_hours == Get(cfg, "forecast_hours", 48)
        end_dt == utc_datetime(t + 60 * forecast_hours)
        q2 == Put(q1, "end_hour", strftime_hour(end_dt))
    IN  IF HasReplicationValue(st) /\ isinstance_str(last_sync)
        THEN IF fromisoformat_raises(s) THEN p
             \* Remove mutually exclusive params
             ELSE PopCounts(q2)
        ELSE p

WeatherHourlyStream_get_url_params(cfg, context, st, t) ==
    LET p0 == OpenMeteoStream_get_url_params(cfg, context)
        p2 == WeatherHourlyStream_time_range(cfg, p0)
        \* Hourly variables
        p3 == Put(p2, "hourly", CommaJoin(Get(cfg, "hourly_variables", DefaultHourlyVars)))
    IN  WeatherHourlyStream_incremental(cfg, p3, st, t)

-----------------------------------------------------------------------------
(* streams.py: WeatherDailyStream.get_url_params *)

\* Time range: prefer hours over days when configured
WeatherDailyStream_time_range(cfg, p) ==
    LET p1 == IF "forecast_hours" \in DOMAIN cfg
              THEN Put(p, "forecast_hours", cfg["forecast_hours"])
              ELSE Put(p, "forecast_days", Get(cfg, "forecast_days", 7))
    IN  IF "past_hours" \in DOMAIN cfg
        THEN Put(p1, "past_hours", cfg["past_hours"])
        ELSE Put(p1, "past_days", Get(cfg, "past_days", 0))

\* an incremental block that removes the hour counts only
WeatherDailyStream_incremental_keepdays(cfg, p, st, t) ==
    LET last_sync == st["replication_key_value"]
        s == ReplaceZ(last_sync)
        q2 == Put(Put(p, "start_date", strftime_date(fromisoformat(s))), "end_date",
                  strftime_date(utc_datetime(t + 1440 * Get(cfg, "forecast_days", 7))))
    IN  IF HasReplicationValue(st) /\ isinstance_str(last_sync)
        THEN IF fromisoformat_raises(s) THEN p
             ELSE Pop(Pop(q2, "forecast_hours"), "past_hours")
        ELSE p

\* Check for incremental state
WeatherDailyStream_incremental(cfg, p, st, t) ==
    LET last_sync == st["replication_key_value"]
        s == ReplaceZ(last_sync)
        dt == fromisoformat(s)
        q1 == Put(p, "start_date", strftime_date(dt))
        \* end_date is required when start_date is set
        forecast_days == Get(cfg, "forecast_days", 7)
        end_dt == utc_datetime(t + 1440 * forecast_days)
        q2 == Put(q1, "end_date", strftime_date(end_dt))
    IN  IF HasReplicationValue(st) /\ isinstance_str(last_sync)
        THEN IF fromisoformat_raises(s) THEN p
             \* Remove mutually exclusive params
             ELSE PopCounts(q2)
        ELSE p

WeatherDailyStream_get_url_params(cfg, context, st, t) ==
    LET p0 == OpenMeteoStream_get_url_params(cfg, context)
        p2 == WeatherDailyStream_time_range(cfg, p0)
        \* Daily variables
        p3 == Put(p2, "daily", CommaJoin(Get(cfg, "daily_variables", DefaultDailyVars)))
    IN  WeatherDailyStream_incremental(cfg, p3, st, t)

-----------------------------------------------------------------------------
(* streams.py: WeatherCurrentStream, WeatherMinutely15Stream,              *)
(* WeatherHistoricalStream .get_url_params                                 *)

WeatherCurrentStream_get_url_params(cfg, context, st, t) ==
    LET p0 == OpenMeteoStream_get_url_params(cfg, context)
    IN  Put(p0, "current", CommaJoin(Get(cfg, "current_variables", DefaultCurrentVars)))

WeatherMinutely15Stream_get_url_params(cfg, context, st, t) ==
    LET p0 == OpenMeteoStream_get_url_params(cfg, context)
        \* Time range: prefer hours over days when configured
        p1 == IF "forecast_hours" \in DOMAIN cfg
              THEN Put(p0, "forecast_hours", cfg["forecast_hours"])
              ELSE Put(p0, "forecast_days", Get(cfg, "forecast_days", 7))
        \* 15-minutely variables
        minutely_vars == Get(cfg, "minutely_15_variables", DefaultMinutely15Vars)
    IN  IF Len(minutely_vars) > 0
        THEN Put(p1, "minutely_15", CommaJoin(minutely_vars))
        ELSE p1

\* a date range that never reads the configured start_date
WeatherHistoricalStream_get_url_params_no_config_start(cfg, context, st, t) ==
    LET p0 == OpenMeteoStream_get_url_params(cfg, context)
        cfg_end == Get(cfg, "end_date", EmptyStr)
        last_sync == st["replication_key_value"]
        s == ReplaceZ(last_sync)
        start_date == IF HasReplicationValue(st) /\ isinstance_str(last_sync)
                         /\ ~fromisoformat_raises(s)
                      THEN strftime_date(fromisoformat(s))
                      ELSE strftime_date(utc_datetime(t - 30 * 1440))
        end_date == IF ~TruthyVal(cfg_end)
                    THEN strftime_date(utc_datetime(t - 1 * 1440))
                    ELSE cfg_end
        p1 == Put(Put(p0, "start_date", start_date), "end_date", end_date)
    IN  Put(p1, "hourly", CommaJoin(Get(cfg, "hourly_variables", DefaultHourlyVars)))

\* a historical window that also starts from an epoch checkpoint
WeatherHistoricalStream_get_url_params_epoch(cfg, context, st, t) ==
    LET p0 == OpenMeteoStream_get_url_params(cfg, context)
        cfg_start == Get(cfg, "start_date", EmptyStr)
        cfg_end == Get(cfg, "end_date", EmptyStr)
        last_sync == st["replication_key_value"]
        s == ReplaceZ(last_sync)
        start1 == IF HasReplicationValue(st)
                  THEN IF isinstance_str(last_sync)
                       THEN IF fromisoformat_raises(s) THEN cfg_start
                            ELSE strftime_date(fromisoformat(s))
                       ELSE IsoStr("date", last_sync.v \div 86400, 0, 0, 0, "")
                  ELSE cfg_start
        start_date == IF ~TruthyVal(start1)
                      THEN strftime_date(utc_datetime(t - 30 * 1440))
                      ELSE start1
        end_date == IF ~TruthyVal(cfg_end)
                    THEN strftime_date(utc_datetime(t - 1 * 1440))
                    ELSE cfg_end
        p1 == Put(Put(p0, "start_date", start_date), "end_date", end_date)
    IN  Put(p1, "hourly", CommaJoin(Get(cfg, "hourly_variables", DefaultHourlyVars)))

WeatherHistoricalStream_get_url_params(cfg, context, st, t) ==
    LET p0 == OpenMeteoStream_get_url_params(cfg, context)
        \* Determine date range; None is EmptyStr here (both are falsy)
        cfg_start == Get(cfg, "start_date", EmptyStr)
        cfg_end == Get(cfg, "end_date", EmptyStr)
        \* Check for incremental state
        last_sync == st["replication_key_value"]
        s == ReplaceZ(last_sync)
        start1 == IF HasReplicationValue(st) /\ isinstance_str(last_sync)
                  THEN IF fromisoformat_raises(s) THEN cfg_start
                       ELSE strftime_date(fromisoformat(s))
                  ELSE cfg_start
        \* Default to last 30 days if no start date
        start_date == IF ~TruthyVal(start1)
                      THEN strftime_date(utc_datetime(t - 30 * 1440))
                      ELSE start1
        \* Default end date to yesterday
        end_date == IF ~TruthyVal(cfg_end)
                    THEN strftime_date(utc_datetime(t - 1 * 1440))
                    ELSE cfg_end
        p1 == Put(Put(p0, "start_date", start_date), "end_date", end_date)
    \* Hourly variables
    IN  Put(p1, "hourly", CommaJoin(Get(cfg, "hourly_variables", DefaultHourlyVars)))

\* the get_url_params the stream instance named `name` runs
get_url_params(name, cfg, context, st, t) ==
    CASE name = "weather_forecast" -> WeatherForecastStream_get_url_params(cfg, context, st, t)
      [] name = "weather_hourly" -> WeatherHourlyStream_get_url_params(cfg, context, st, t)
      [] name = "weather_daily" -> WeatherDailyStream_get_url_params(cfg, context, st, t)
      [] name = "weather_current" -> WeatherCurrentStream_get_url_params(cfg, context, st, t)
      [] name = "weather_minutely_15" -> WeatherMinutely15Stream_get_url_params(cfg, context, st, t)
      [] name = "weather_historical" -> WeatherHistoricalStream_get_url_params(cfg, context, st, t)

-----------------------------------------------------------------------------
(* streams.py: the schemas, as field name |-> JSON type.  Appending a       *)
(* property whose name the list already holds replaces it (the properties  *)
(* are kept by name), so configured variables override the key fields.     *)

WeatherForecastStream_schema(cfg) ==
    [location_name |-> "string", latitude |-> "number", longitude |-> "number",
     elevation |-> "number", timezone |-> "string", timezone_abbreviation |-> "string",
     utc_offset_seconds |-> "integer", generationtime_ms |-> "number",
     generated_at |-> "date-time", forecast_days |-> "integer", past_days |-> "integer",
     hourly_variables |-> "array", daily_variables |-> "array"]

WeatherHourlyStream_schema(cfg) ==
    LET keys == [location_name |-> "string", latitude |-> "number",
                 longitude |-> "number", time |-> "date-time", time_unix |-> "integer"]
        hourly_vars == Get(cfg, "hourly_variables", DefaultHourlyVars)
        type(var) == IF var \in {"weather_code", "is_day"} THEN "integer"
                     ELSE IF var \in {"time", "sunrise", "sunset"} THEN "string"
                     ELSE "number"
    IN  [f \in DOMAIN keys \cup Range(hourly_vars) |->
            IF f \in Range(hourly_vars) THEN type(f) ELSE keys[f]]

WeatherDailyStream_schema(cfg) ==
    LET keys == [location_name |-> "string", latitude |-> "number",
                 longitude |-> "number", date |-> "date"]
        daily_vars == Get(cfg, "daily_variables", DefaultDailyVars)
        type(var) == IF var = "weather_code" THEN "integer"
                     ELSE IF var \in {"sunrise", "sunset"} THEN "date-time"
                     ELSE "number"
    IN  [f \in DOMAIN keys \cup Range(daily_vars) |->
            IF f \in Range(daily_vars) THEN type(f) ELSE keys[f]]

WeatherCurrentStream_schema(cfg) ==
    LET keys == [location_name |-> "string", latitude |-> "number",
                 longitude |-> "number", time |-> "date-time", interval |-> "integer"]
        current_vars == Get(cfg, "current_variables", DefaultCurrentVars)
        type(var) == IF var \in {"weather_code", "is_day"} THEN "integer" ELSE "number"
    IN  [f \in DOMAIN keys \cup Range(current_vars) |->
            IF f \in Range(current_vars) THEN type(f) ELSE keys[f]]

WeatherMinutely15Stream_schema(cfg) ==
    LET keys == [location_name |-> "string", latitude |-> "number",
                 longitude |-> "number", time |-> "date-time"]
        minutely_vars == Get(cfg, "minutely_15_variables", DefaultMinutely15Vars)
        type(var) == IF var \in {"weather_code", "is_day"} THEN "integer" ELSE "number"
    IN  [f \in DOMAIN keys \cup Range(minutely_vars) |->
            IF f \in Range(minutely_vars) THEN type(f) ELSE keys[f]]

WeatherHistoricalStream_schema(cfg) ==
    LET keys == [location_name |-> "string", latitude |-> "number",
                 longitude |-> "number", time |-> "date-time", date |-> "date"]
        hourly_vars == Get(cfg, "hourly_variables", DefaultHourlyVars)
        type(var) == IF var \in {"weather_code", "is_day"} THEN "integer" ELSE "number"
    IN  [f \in DOMAIN keys \cup Range(hourly_vars) |->
            IF f \in Range(hourly_vars) THEN type(f) ELSE keys[f]]

\* the schema of the stream instance named `name`
schema(name, cfg) ==
    CASE name = "weather_forecast" -> WeatherForecastStream_schema(cfg)
      [] name = "weather_hourly" -> WeatherHourlyStream_schema(cfg)
      [] name = "weather_daily" -> WeatherDailyStream_schema(cfg)
      [] name = "weather_current" -> WeatherCurrentStream_schema(cfg)
      [] name = "weather_minutely_15" -> WeatherMinutely15Stream_schema(cfg)
      [] name = "weather_historical" -> WeatherHistoricalStream_schema(cfg)

\* the class attribute replication_key of the stream named `name`
replication_key(name) ==
    CASE name = "weather_forecast" -> "generated_at"
      [] name = "weather_daily" -> "date"
      [] OTHER -> "time"

-----------------------------------------------------------------------------
(* streams.py: parse_response of the six streams.  Each returns the list   *)
(* of records its generator yields, in order.                              *)

\* the location name parse_response reads from self._current_context
ResolveLocationName(ctx) ==
    IF Truthy(ctx) THEN Get(ctx, "location_name", "unknown") ELSE "unknown"

\* float(data[k]) if data.get(k) is not None else None
FloatOrNone(data, k) ==
    IF k \in DOMAIN data /\ data[k] # Null THEN data[k] ELSE Null

\* a variable's value that is null at the last index of its array
VarValueShort(section, var, i) ==
    LET values == Get(section, var, << >>)
    IN  IF i < Len(values) THEN values[i] ELSE Null

\* the value of one variable at index i of the time array (i counts from 1;
\* Python's `i < len(values)` counts from 0)
VarValue(section, var, i) ==
    LET values == Get(section, var, << >>)
    IN  IF i <= Len(values) THEN values[i] ELSE Null

\* a loop that leaves a variable out of the record when its array is missing
RECURSIVE AddVarsPresentOnly(_, _, _, _)
AddVarsPresentOnly(record, var_list, section, i) ==
    IF var_list = << >> THEN record
    ELSE AddVarsPresentOnly(
             IF Head(var_list) \in DOMAIN section
             THEN Put(record, Head(var_list), VarValue(section, Head(var_list), i))
             ELSE record,
             Tail(var_list), section, i)

\* `for var in vars: record[var] = values[i] if i < len(values) else None`
RECURSIVE AddVars(_, _, _, _)
AddVars(record, var_list, section, i) ==
    IF var_list = << >> THEN record
    ELSE AddVars(Put(record, Head(var_list), VarValue(section, Head(var_list), i)),
                 Tail(var_list), section, i)

WeatherForecastStream_parse_response(cfg, data, loc_name, t, local) ==
    << [location_name |-> loc_name,
        latitude |-> FloatOrNone(data, "latitude"),
        longitude |-> FloatOrNone(data, "longitude"),
        elevation |-> FloatOrNone(data, "elevation"),
        timezone |-> Get(data, "timezone", Null),
        timezone_abbreviation |-> Get(data, "timezone_abbreviation", Null),
        utc_offset_seconds |-> Get(data, "utc_offset_seconds", Null),
        generationtime_ms |-> Get(data, "generationtime_ms", Null),
        generated_at |-> now_isoformat(t),
        forecast_days |-> Get(cfg, "forecast_days", 7),
        past_days |-> Get(cfg, "past_days", 0),
        hourly_variables |-> Get(cfg, "hourly_variables", << >>),
        daily_variables |-> Get(cfg, "daily_variables", << >>)] >>

WeatherHourlyStream_parse_response(cfg, data, loc_name, t, local) ==
    LET hourly == Get(data, "hourly", EmptyDict)
        times == Get(hourly, "time", << >>)
        hourly_vars == Get(cfg, "hourly_variables", DefaultHourlyVars)
        record(i) ==
            LET time_val == times[i]
                r0 == [location_name |-> loc_name,
                       latitude |-> FloatOrNone(data, "latitude"),
                       longitude |-> FloatOrNone(data, "longitude"),
                       time |-> time_val]
                \* Convert time to unix if we have it in ISO format
                r1 == IF isinstance_str(time_val)
                      THEN IF fromisoformat_raises(time_val)
                           THEN Put(r0, "time_unix", Null)
                           ELSE Put(r0, "time_unix",
                                    IntVal(timestamp(fromisoformat(time_val), local)))
                      \* Convert unix to ISO
                      ELSE Put(Put(r0, "time_unix", time_val),
                               "time", fromtimestamp_isoformat(time_val.v))
            IN  AddVars(r1, hourly_vars, hourly, i)
    IN  [i \in 1..Len(times) |-> record(i)]

WeatherDailyStream_parse_response(cfg, data, loc_name, t, local) ==
    LET daily == Get(data, "daily", EmptyDict)
        times == Get(daily, "time", << >>)
        daily_vars == Get(cfg, "daily_variables", DefaultDailyVars)
        record(i) ==
            AddVars([location_name |-> loc_name,
                     latitude |-> FloatOrNone(data, "latitude"),
                     longitude |-> FloatOrNone(data, "longitude"),
                     date |-> times[i]],
                    daily_vars, daily, i)
    IN  [i \in 1..Len(times) |-> record(i)]

\* a flattener that leaves out the variables the response does not hold
WeatherCurrentStream_parse_response_present_only(cfg, data, loc_name, t, local) ==
    LET current == Get(data, "current", EmptyDict)
        current_vars == Get(cfg, "current_variables", DefaultCurrentVars)
        r0 == [location_name |-> loc_name,
               latitude |-> FloatOrNone(data, "latitude"),
               longitude |-> FloatOrNone(data, "longitude"),
               time |-> Get(current, "time", Null),
               interval |-> Get(current, "interval", Null)]
    IN  IF ~Truthy(current) THEN << >>
        ELSE << [f \in DOMAIN r0 \cup (Range(current_vars) \cap DOMAIN current) |->
                    IF f \in Range(current_vars) THEN current[f] ELSE r0[f]] >>

WeatherCurrentStream_parse_response(cfg, data, loc_name, t, local) ==
    LET current == Get(data, "current", EmptyDict)
        current_vars == Get(cfg, "current_variables", DefaultCurrentVars)
        r0 == [location_name |-> loc_name,
               latitude |-> FloatOrNone(data, "latitude"),
               longitude |-> FloatOrNone(data, "longitude"),
               time |-> Get(current, "time", Null),
               interval |-> Get(current, "interval", Null)]
    IN  IF ~Truthy(current) THEN << >>
        ELSE << [f \in DOMAIN r0 \cup Range(current_vars) |->
                    IF f \in Range(current_vars) THEN Get(current, f, Null)
                    ELSE r0[f]] >>

WeatherMinutely15Stream_parse_response(cfg, data, loc_name, t, local) ==
    LET minutely == Get(data, "minutely_15", EmptyDict)
        times == Get(minutely, "time", << >>)
        minutely_vars == Get(cfg, "minutely_15_variables", DefaultMinutely15Vars)
        record(i) ==
            AddVars([location_name |-> loc_name,
                     latitude |-> FloatOrNone(data, "latitude"),
                     longitude |-> FloatOrNone(data, "longitude"),
                     time |-> times[i]],
                    minutely_vars, minutely, i)
    IN  [i \in 1..Len(times) |-> record(i)]

\* a flattener that counts the rows on a variable's array when the response
\* has no time array
WeatherHistoricalStream_parse_response_by_values(cfg, data, loc_name, t, local) ==
    LET hourly == Get(data, "hourly", EmptyDict)
        times == IF "time" \in DOMAIN hourly THEN hourly["time"]
                 ELSE [i \in 1..Len(Get(hourly, "temperature_2m", << >>)) |-> Null]
        hourly_vars == Get(cfg, "hourly_variables", DefaultHourlyVars)
        record(i) ==
            AddVars([location_name |-> loc_name,
                     latitude |-> FloatOrNone(data, "latitude"),
                     longitude |-> FloatOrNone(data, "longitude"),
                     time |-> times[i], date |-> Null],
                    hourly_vars, hourly, i)
    IN  [i \in 1..Len(times) |-> record(i)]

WeatherHistoricalStream_parse_response(cfg, data, loc_name, t, local) ==
    LET hourly == Get(data, "hourly", EmptyDict)
        times == Get(hourly, "time", << >>)
        hourly_vars == Get(cfg, "hourly_variables", DefaultHourlyVars)
        record(i) ==
            LET time_val == times[i]
                r0 == [location_name |-> loc_name,
                       latitude |-> FloatOrNone(data, "latitude"),
                       longitude |-> FloatOrNone(data, "longitude"),
                       time |-> time_val]
                \* Extract date from time: time_val.split("T")[0]
                r1 == IF isinstance_str(time_val) /\ time_val.kind \in {"minute", "second"}
                      THEN Put(r0, "date", IsoStr("date", time_val.day, 0, 0, 0, ""))
                      ELSE Put(r0, "date", Null)
            IN  AddVars(r1, hourly_vars, hourly, i)
    IN  [i \in 1..Len(times) |-> record(i)]

\* a dispatcher that hands the records over latest first
parse_response_reversed(name, cfg, data, loc_name, t, local) ==
    LET r == CASE name = "weather_forecast" -> WeatherForecastStream_parse_response(cfg, data, loc_name, t, local)
               [] name = "weather_hourly" -> WeatherHourlyStream_parse_response(cfg, data, loc_name, t, local)
               [] name = "weather_daily" -> WeatherDailyStream_parse_response(cfg, data, loc_name, t, local)
               [] name = "weather_current" -> WeatherCurrentStream_parse_response(cfg, data, loc_name, t, local)
               [] name = "weather_minutely_15" -> WeatherMinutely15Stream_parse_response(cfg, data, loc_name, t, local)
               [] name = "weather_historical" -> WeatherHistoricalStream_parse_response(cfg, data, loc_name, t, local)
    IN  [i \in 1..Len(r) |-> r[Len(r) + 1 - i]]

\* the parse_response the stream instance named `name` runs
parse_response(name, cfg, data, loc_name, t, local) ==
    CASE name = "weather_forecast" -> WeatherForecastStream_parse_response(cfg, data, loc_name, t, local)
      [] name = "weather_hourly" -> WeatherHourlyStream_parse_response(cfg, data, loc_name, t, local)
      [] name = "weather_daily" -> WeatherDailyStream_parse_response(cfg, data, loc_name, t, local)
      [] name = "weather_current" -> WeatherCurrentStream_parse_response(cfg, data, loc_name, t, local)
      [] name = "weather_minutely_15" -> WeatherMinutely15Stream_parse_response(cfg, data, loc_name, t, local)
      [] name = "weather_historical" -> WeatherHistoricalStream_parse_response(cfg, data, loc_name, t, local)

-----------------------------------------------------------------------------
(* The inputs tried *)

StreamNames ==
    {"weather_forecast", "weather_hourly", "weather_daily", "weather_current",
     "weather_minutely_15", "weather_historical"}

\* the configured locations: one with a timezone override, one with elevation 0
LocA == [name |-> "A", latitude |-> 45, longitude |-> 11, timezone |-> "Europe/Rome"]
LocB == [name |-> "B", latitude |-> 52, longitude |-> 13, elevation |-> 0]
LocNames == {"A", "B"}

BaseConfig == [locations |-> <<LocA, LocB>>]

\* the context of location l: the entry of the stream's partitions with that name
ContextOf(cfg, l) ==
    LET ctxs == get_location_contexts(cfg)
    IN  ctxs[CHOOSE i \in DOMAIN ctxs : ctxs[i]["location_name"] = l]

\* an optional setting: << >> leaves it unset, <<v>> sets it to v
SetOpt(d, k, o) == IF o = << >> THEN d ELSE Put(d, k, o[1])

Dates == (NowDay - MaxAge)..NowDay

\* configurations of the time window
WindowConfigs ==
    { SetOpt(SetOpt(SetOpt(SetOpt(SetOpt(SetOpt(BaseConfig,
        "forecast_hours", fh), "forecast_days", fd), "past_hours", ph),
        "past_days", pd), "start_date", sd), "end_date", ed) :
        fh \in {<< >>, <<0>>, <<48>>}, fd \in {<< >>, <<3>>},
        ph \in {<< >>, <<120>>}, pd \in {<< >>, <<5>>},
        sd \in {<< >>, <<IsoStr("date", NowDay - MaxAge, 0, 0, 0, "")>>},
        ed \in {<< >>, <<IsoStr("date", NowDay, 0, 0, 0, "")>>} }

\* configurations of the units and the grid-cell selection
UnitConfigs ==
    { SetOpt(SetOpt(SetOpt(SetOpt(SetOpt(BaseConfig,
        "temperature_unit", tu), "wind_speed_unit", wu), "precipitation_unit", pu),
        "timeformat", tf), "cell_selection", cs) :
        tu \in {<< >>, <<"celsius">>, <<"fahrenheit">>},
        wu \in {<< >>, <<"kmh">>, <<"ms">>, <<"mph">>, <<"kn">>},
        pu \in {<< >>, <<"mm">>, <<"inch">>},
        tf \in {<< >>, <<"iso8601">>, <<"unixtime">>},
        cs \in {<< >>, <<"land">>, <<"sea">>, <<"nearest">>} }

\* configurations of the locations and of the global timezone: location A
\* with or without a timezone override ("" is no override) and an elevation
\* (0 is one), location B as it is
LocationConfigs ==
    { SetOpt([locations |->
                 << SetOpt(SetOpt([name |-> "A", latitude |-> 45, longitude |-> 11],
                                  "timezone", tz), "elevation", el),
                    LocB >>],
             "timezone", gtz) :
        tz \in {<< >>, <<"Europe/Rome">>, <<"">>},
        el \in {<< >>, <<0>>, <<38>>},
        gtz \in {<< >>, <<"UTC">>} }

\* configurations of the keys passed through: models, api_key, tilt, azimuth
PassthroughConfigs ==
    { SetOpt(SetOpt(SetOpt(SetOpt(BaseConfig,
        "models", mo), "api_key", ak), "tilt", ti), "azimuth", az) :
        mo \in {<< >>, << << >> >>, << <<"icon_seamless">> >>,
                << <<"icon_seamless", "gfs_seamless">> >>},
        ak \in {<< >>, <<"">>, <<"secret">>},
        ti \in {<< >>, <<0>>, <<45>>},
        az \in {<< >>, <<0>>, <<-90>>} }

\* valid ISO8601 checkpoint values
ValidCheckpoints ==
    { IsoStr("date", d, 0, 0, 0, "") : d \in Dates }
    \cup { IsoStr(k, d, hm[1], hm[2], IF k = "second" THEN 59 ELSE 0, tz) :
             k \in {"minute", "second"}, d \in Dates,
             hm \in {<<0, 0>>, <<23, 30>>}, tz \in {"", "Z", "+02:00"} }

\* what get_context_state can return: no state, a state without a replication
\* value, and a state whose replication value is "", no timestamp, an integer
\* or a valid timestamp
ContextStates ==
    {EmptyDict, [context |-> "partition"]}
    \cup { [context |-> "partition", replication_key_value |-> v] :
             v \in {EmptyStr, Garbage, IntVal(1700000000)} \cup ValidCheckpoints }

OneCheckpoint == IsoStr("minute", NowDay - MaxAge, 23, 30, 0, "")

Clocks == {NowDay * 1440 + 30, NowDay * 1440 + 23 * 60 + 45}

\* the setting that lists the variables the stream named `name` requests
RequestVarKey(name) ==
    CASE name = "weather_daily" -> "daily_variables"
      [] name = "weather_current" -> "current_variables"
      [] name = "weather_minutely_15" -> "minutely_15_variables"
      [] OTHER -> "hourly_variables"

\* configurations of the stream's variable list: unset, empty, one, two
ParamVarConfigs(name) ==
    { SetOpt(BaseConfig, RequestVarKey(name), o) :
        o \in {<< >>, << << >> >>, << <<"temperature_2m">> >>,
               << <<"weather_code", "temperature_2m">> >>} }

-----------------------------------------------------------------------------
(* Building the parameter set of one request *)

Idle(cfg, name, t, st, up) ==
    /\ config = cfg
    /\ upstream = up
    /\ stream = name
    /\ now = t
    /\ state = st
    /\ current_context = EmptyDict
    /\ params = [l \in LocNames |-> EmptyDict]
    /\ response = [l \in LocNames |-> EmptyDict]
    /\ location_name = [l \in LocNames |-> "unknown"]
    /\ idx = [l \in LocNames |-> 0]
    /\ emitted = << >>
    /\ run = [l \in LocNames |-> 0]
    /\ tap_pc = "SYNC"
    /\ discovered = <<name>>
    /\ warnings = << >>
    /\ stream_partitions = << >>

\* one location's request is about to be built
InitParams ==
    \E l \in LocNames :
        /\ pc = [x \in LocNames |-> IF x = l THEN "PENDING" ELSE "DONE"]
        /\ \/ \E cfg \in WindowConfigs, name \in StreamNames, t \in Clocks,
                 st \in ContextStates :
                   /\ tzlocal = 0
                   /\ Idle(cfg, name, t,
                           [x \in LocNames |-> IF x = l THEN st ELSE EmptyDict],
                           [x \in LocNames |-> EmptyDict])
           \/ \E cfg \in UnitConfigs, name \in StreamNames,
                 st \in {EmptyDict, [context |-> "partition",
                                     replication_key_value |-> OneCheckpoint]} :
                   /\ tzlocal = 0
                   /\ Idle(cfg, name, NowDay * 1440 + 30,
                           [x \in LocNames |-> IF x = l THEN st ELSE EmptyDict],
                           [x \in LocNames |-> EmptyDict])
           \/ \E name \in StreamNames,
                 st \in {EmptyDict, [context |-> "partition",
                                     replication_key_value |-> OneCheckpoint]} :
                 \E cfg \in LocationConfigs \cup PassthroughConfigs
                             \cup ParamVarConfigs(name) :
                   /\ tzlocal = 0
                   /\ Idle(cfg, name, NowDay * 1440 + 30,
                           [x \in LocNames |-> IF x = l THEN st ELSE EmptyDict],
                           [x \in LocNames |-> EmptyDict])

\* prepare_request: get_url_params for location l's request
BuildParams(l) ==
    /\ pc[l] = "PENDING"
    /\ params' = [params EXCEPT ![l] =
                    get_url_params(stream, config, ContextOf(config, l), state[l], now)]
    /\ pc' = [pc EXCEPT ![l] = "BUILT"]
    /\ UNCHANGED <<tapvars, run, config, stream, now, tzlocal, state, current_context, upstream,
                   response, location_name, idx, emitted>>

NextParams == \E l \in LocNames : BuildParams(l)

SpecParams == InitParams /\ [][NextParams]_vars

-----------------------------------------------------------------------------
(* The responses and variable lists tried *)

\* the response section a stream reads, and the setting that lists its variables
SectionKey(name) ==
    CASE name = "weather_daily" -> "daily"
      [] name = "weather_current" -> "current"
      [] name = "weather_minutely_15" -> "minutely_15"
      [] OTHER -> "hourly"
VarKey(name) ==
    CASE name = "weather_daily" -> "daily_variables"
      [] name = "weather_current" -> "current_variables"
      [] name = "weather_minutely_15" -> "minutely_15_variables"
      [] OTHER -> "hourly_variables"

\* variable lists: unset, empty, one, two, one the API never answers, a
\* duplicate, and the names the schemas type by name
VarListOpts ==
    {<< >>, << << >> >>, << <<"temperature_2m">> >>,
     << <<"weather_code", "temperature_2m">> >>, << <<"precipitation">> >>,
     << <<"temperature_2m", "temperature_2m">> >>, << <<"is_day", "sunset">> >>}
VarConfigs(name) == { SetOpt(BaseConfig, VarKey(name), o) : o \in VarListOpts }

\* the top-level fields of a response: none, or all
TopLevels ==
    {EmptyDict,
     [latitude |-> IntVal(45), longitude |-> IntVal(11), elevation |-> IntVal(38),
      timezone |-> Str("Europe/Rome"), timezone_abbreviation |-> Str("CET"),
      utc_offset_seconds |-> IntVal(3600), generationtime_ms |-> IntVal(2)]}

\* a time array of n entries, in upstream order: ISO8601 strings (hours of
\* day NowDay, or successive dates) or epoch seconds
\* ("desc" is an array the upstream would send out of order: latest hour first)
TimeArray(kind, n) ==
    [i \in 1..n |->
        CASE kind = "iso" -> IsoStr("minute", NowDay, i - 1, 0, 0, "")
          [] kind = "desc" -> IsoStr("minute", NowDay, n - i, 0, 0, "")
          [] kind = "date" -> IsoStr("date", NowDay + i - 1, 0, 0, 0, "")
          [] kind = "unix" -> IntVal((NowDay * 24 + (i - 1)) * 3600)]
TimeOpts(name) ==
    {<< >>} \cup
    { <<TimeArray(k, n)>> :
        k \in (IF name = "weather_daily" THEN {"date", "unix"} ELSE {"iso", "unix"}),
        n \in 0..MaxTimes }
    \cup { <<TimeArray("desc", MaxTimes)>> }

\* a variable's array: missing, or of any length up to MaxTimes
ValueArray(code, n) == [i \in 1..n |-> IntVal(code * 100 + i)]
ArrayOpts(code) == {<< >>} \cup { <<ValueArray(code, n)>> : n \in 0..MaxTimes }

WindowedSections(name) ==
    { SetOpt(SetOpt(SetOpt(EmptyDict, "time", to), "temperature_2m", a1),
             "weather_code", a2) :
        to \in TimeOpts(name), a1 \in ArrayOpts(1), a2 \in ArrayOpts(2) }

CurrentSections ==
    { SetOpt(SetOpt(SetOpt(SetOpt(EmptyDict, "time", to), "interval", io),
             "temperature_2m", v1), "weather_code", v2) :
        to \in {<< >>, <<IsoStr("minute", NowDay, 0, 30, 0, "")>>},
        io \in {<< >>, <<IntVal(900)>>},
        v1 \in {<< >>, <<IntVal(101)>>}, v2 \in {<< >>, <<IntVal(201)>>} }

\* the bodies the API may answer a request of stream `name` with
Responses(name) ==
    LET sections == IF name = "weather_current" THEN CurrentSections
                    ELSE WindowedSections(name)
    IN  TopLevels \cup
        { Put(top, SectionKey(name), sec) : top \in TopLevels, sec \in sections }

\* two small bodies: a full one with two timestamps, and one without data
SmallResponses(name) ==
    LET top == CHOOSE x \in TopLevels : x # EmptyDict
        full == IF name = "weather_current"
                THEN [time |-> IsoStr("minute", NowDay, 0, 30, 0, ""),
                      interval |-> IntVal(900), temperature_2m |-> IntVal(101)]
                ELSE [time |-> TimeArray(IF name = "weather_daily" THEN "date" ELSE "iso", 2),
                      temperature_2m |-> ValueArray(1, 2)]
    IN  {top, Put(top, SectionKey(name), full)}

-----------------------------------------------------------------------------
(* get_records: the run of one location on the stream instance.            *)
(*   PENDING -> REQUESTING -> EMITTING -> DONE, or REQUESTING -> FAILED    *)
(* A run is suspended while its request is in flight and between two       *)
(* records of its generator; the host may run another location meanwhile.  *)

\* the records the generator of location l yields, from its response and the
\* location name it read when it started
RecordsOf(l) ==
    parse_response(stream, config, response[l], location_name[l], now, tzlocal)

\* the run of location l has built and sent its request
Ran(l) == params[l] # EmptyDict

\* get_records is entered: self._current_context = context, then the request
\* is prepared (get_url_params) and sent
StartRun(l) ==
    /\ pc[l] = "PENDING"
    /\ current_context' = ContextOf(config, l)
    /\ params' = [params EXCEPT ![l] =
                    get_url_params(stream, config, ContextOf(config, l), state[l], now)]
    /\ pc' = [pc EXCEPT ![l] = "REQUESTING"]
    /\ UNCHANGED <<tapvars, run, config, stream, now, tzlocal, state, upstream, response,
                   location_name, idx, emitted>>

\* the response arrives: parse_response starts, reads the location name from
\* self._current_context and runs to its first yield (or to its end)
Receive(l) ==
    /\ pc[l] = "REQUESTING"
    /\ LET name == ResolveLocationName(current_context)
           recs == parse_response(stream, config, upstream[l], name, now, tzlocal)
       IN  /\ response' = [response EXCEPT ![l] = upstream[l]]
           /\ location_name' = [location_name EXCEPT ![l] = name]
           /\ IF Len(recs) > 0
              THEN /\ emitted' = Append(emitted, [loc |-> l, i |-> 1, record |-> recs[1],
                                                     run |-> run[l], at |-> now])
                   /\ idx' = [idx EXCEPT ![l] = 1]
                   /\ pc' = [pc EXCEPT ![l] = "EMITTING"]
              ELSE /\ pc' = [pc EXCEPT ![l] = "DONE"]
                   /\ UNCHANGED <<emitted, idx>>
    /\ UNCHANGED <<tapvars, run, config, stream, now, tzlocal, state, current_context, params,
                   upstream>>

\* the host asks the generator for its next record
Emit(l) ==
    /\ pc[l] = "EMITTING"
    /\ idx[l] < Len(RecordsOf(l))
    /\ emitted' = Append(emitted, [loc |-> l, i |-> idx[l] + 1,
                                   record |-> RecordsOf(l)[idx[l] + 1],
                                   run |-> run[l], at |-> now])
    /\ idx' = [idx EXCEPT ![l] = idx[l] + 1]
    /\ UNCHANGED <<tapvars, run, config, stream, now, tzlocal, state, current_context, pc, params,
                   upstream, response, location_name>>

\* the generator is exhausted
Exhaust(l) ==
    /\ pc[l] = "EMITTING"
    /\ idx[l] = Len(RecordsOf(l))
    /\ pc' = [pc EXCEPT ![l] = "DONE"]
    /\ UNCHANGED <<tapvars, run, config, stream, now, tzlocal, state, current_context, params,
                   upstream, response, location_name, idx, emitted>>

\* the request fails in the HTTP transport
Fail(l) ==
    /\ pc[l] = "REQUESTING"
    /\ pc' = [pc EXCEPT ![l] = "FAILED"]
    /\ UNCHANGED <<tapvars, run, config, stream, now, tzlocal, state, current_context, params,
                   upstream, response, location_name, idx, emitted>>

Next ==
    \E l \in LocNames :
        StartRun(l) \/ Receive(l) \/ Emit(l) \/ Exhaust(l) \/ Fail(l)

\* one location's run alone, over every response and variable list
InitParse ==
    \E l \in LocNames, name \in StreamNames :
        /\ pc = [x \in LocNames |-> IF x = l THEN "PENDING" ELSE "DONE"]
        /\ tzlocal \in {0, 120}
        /\ \E cfg \in VarConfigs(name), data \in Responses(name) :
              Idle(cfg, name, NowDay * 1440 + 30, [x \in LocNames |-> EmptyDict],
                   [x \in LocNames |-> IF x = l THEN data ELSE EmptyDict])

SpecParse == InitParse /\ [][Next]_vars

\* the runs of all locations on one stream instance, interleaved by the host
Init ==
    \E name \in StreamNames :
        /\ pc = [x \in LocNames |-> "PENDING"]
        /\ tzlocal = 0
        /\ \E cfg \in {BaseConfig, SetOpt(BaseConfig, VarKey(name), << <<"temperature_2m">> >>),
                         Put(SetOpt(BaseConfig, VarKey(name), << <<"temperature_2m">> >>),
                             "forecast_hours", 24)},
              up \in [LocNames -> SmallResponses(name)] :
              Idle(cfg, name, NowDay * 1440 + 30, [x \in LocNames |-> EmptyDict], up)

Spec == Init /\ [][Next]_vars

-----------------------------------------------------------------------------
(* tap.py: TapOpenMeteo.discover_streams, and the host reading each         *)
(* discovered stream's partitions                                          *)

available_streams ==
    {"weather_forecast", "weather_hourly", "weather_daily", "weather_current",
     "weather_minutely_15", "weather_historical"}

\* a loop that gives up at the first unknown name
RECURSIVE discover_loop_stop(_, _)
discover_loop_stop(streams_to_sync, acc) ==
    IF streams_to_sync = << >> THEN acc
    ELSE LET stream_name == Head(streams_to_sync)
         IN  IF stream_name \in available_streams
             THEN discover_loop_stop(Tail(streams_to_sync),
                      [acc EXCEPT !.discovered = Append(@, stream_name)])
             ELSE [acc EXCEPT !.warnings = Append(@, stream_name)]

\* `for stream_name in streams_to_sync:` append the instance, or log a warning
RECURSIVE discover_loop(_, _)
discover_loop(streams_to_sync, acc) ==
    IF streams_to_sync = << >> THEN acc
    ELSE LET stream_name == Head(streams_to_sync)
         IN  discover_loop(Tail(streams_to_sync),
                 IF stream_name \in available_streams
                 THEN [acc EXCEPT !.discovered = Append(@, stream_name)]
                 ELSE [acc EXCEPT !.warnings = Append(@, stream_name)])

\* discover_streams: the instances returned (by name) and the warnings logged
discover_streams(cfg) ==
    LET streams_to_sync ==
            Get(cfg, "streams_to_sync",
                <<"weather_forecast", "weather_hourly", "weather_daily">>)
    IN  discover_loop(streams_to_sync, [discovered |-> << >>, warnings |-> << >>])

\* a third location, with both overrides
LocC == [name |-> "C", latitude |-> 48, longitude |-> 2, elevation |-> 35,
         timezone |-> "Europe/Paris"]

\* the lists of at most n items of S
SeqsUpTo(S, n) == UNION { [1..k -> S] : k \in 0..n }

\* lists of locations with unique names, the empty list included
LocationLists ==
    { locs \in SeqsUpTo({LocA, LocB, LocC}, MaxLocations) :
        \A i, j \in DOMAIN locs : locs[i] = locs[j] => i = j }

\* streams_to_sync: unset, or a list of known and unknown names
SelectionOpts ==
    {<< >>} \cup
    { <<sel>> : sel \in SeqsUpTo(available_streams \cup {"weather_unknown"}, MaxSelected) }

\* a variable list of names the schemas type by name: unset, or set
TypedNameOpts == {<< >>, << <<"is_day", "sunset">> >>}

DiscoverConfigs ==
    { SetOpt(SetOpt(SetOpt([locations |-> locs], "streams_to_sync", so),
                    "hourly_variables", hv), "daily_variables", dv) :
        locs \in LocationLists, so \in SelectionOpts,
        hv \in TypedNameOpts, dv \in TypedNameOpts }

\* the tap is constructed with a validated configuration; no stream exists yet
InitDiscover ==
    /\ config \in DiscoverConfigs
    /\ tap_pc = "CONFIGURED"
    /\ discovered = << >>
    /\ warnings = << >>
    /\ stream_partitions = << >>
    /\ stream = "none"
    /\ now = NowDay * 1440 + 30
    /\ tzlocal = 0
    /\ current_context = EmptyDict
    /\ pc = [l \in LocNames |-> "PENDING"]
    /\ state = [l \in LocNames |-> EmptyDict]
    /\ params = [l \in LocNames |-> EmptyDict]
    /\ upstream = [l \in LocNames |-> EmptyDict]
    /\ response = [l \in LocNames |-> EmptyDict]
    /\ location_name = [l \in LocNames |-> "unknown"]
    /\ idx = [l \in LocNames |-> 0]
    /\ emitted = << >>
    /\ run = [l \in LocNames |-> 0]

\* the host calls discover_streams
DiscoverStreams ==
    /\ tap_pc = "CONFIGURED"
    /\ discovered' = discover_streams(config).discovered
    /\ warnings' = discover_streams(config).warnings
    /\ tap_pc' = "DISCOVERED"
    /\ UNCHANGED <<run, config, stream, now, tzlocal, state, current_context, pc, params,
                   upstream, response, location_name, idx, emitted, stream_partitions>>

\* the host reads the partitions of the next discovered stream
ReadPartitions ==
    /\ tap_pc = "DISCOVERED"
    /\ Len(stream_partitions) < Len(discovered)
    /\ stream_partitions' = Append(stream_partitions, partitions(config))
    /\ UNCHANGED <<run, config, stream, now, tzlocal, state, current_context, pc, params,
                   upstream, response, location_name, idx, emitted, tap_pc,
                   discovered, warnings>>

NextDiscover == DiscoverStreams \/ ReadPartitions

SpecDiscover == InitDiscover /\ [][NextDiscover]_vars

-----------------------------------------------------------------------------
(* Successive runs of one stream instance under a fixed configuration.     *)
(* Between two runs of a location the host stores the largest replication  *)
(* key value the run emitted as that location's checkpoint; the API        *)
(* answers each request with the timestamps of the window it asks for; the *)
(* clock moves forward at any moment.                                      *)

MaxRuns == 2
MaxTicks == 2
\* minutes the clock moves in one step (twelve hours and five minutes)
TickStep == 725

StartOfRuns == NowDay * 1440 + 30

\* the minute a timestamp string of a request names
MinuteOf(s) == s.day * 1440 + s.hh * 60 + s.mm

\* the first and last minute of the window a request asks for
RequestedWindow(name, p, t) ==
    LET today == (t \div 1440) * 1440
        days == Get(p, "forecast_days", 7)
        back == Get(p, "past_days", 0)
    IN  CASE name = "weather_historical" ->
               [lo |-> MinuteOf(p["start_date"]),
                hi |-> MinuteOf(p["end_date"]) + 23 * 60]
          [] name = "weather_daily" ->
               IF "start_date" \in DOMAIN p
               THEN [lo |-> MinuteOf(p["start_date"]), hi |-> MinuteOf(p["end_date"])]
               ELSE [lo |-> today - back * 1440, hi |-> today + (days - 1) * 1440]
          [] OTHER ->
               IF "start_hour" \in DOMAIN p
               THEN [lo |-> MinuteOf(p["start_hour"]), hi |-> MinuteOf(p["end_hour"])]
               ELSE IF "forecast_hours" \in DOMAIN p
               THEN [lo |-> t - (t % 60),
                     hi |-> t - (t % 60) + (p["forecast_hours"] - 1) * 60]
               ELSE [lo |-> today - back * 1440, hi |-> today + days * 1440 - 60]

\* the body the API answers a request with: the top-level fields and the
\* stream's section, whose time array is kept by its first and last entry,
\* as ISO8601 strings or, with timeformat=unixtime, as epoch seconds
Answer(name, p, t) ==
    LET top == CHOOSE x \in TopLevels : x # EmptyDict
        unix == "timeformat" \in DOMAIN p /\ p["timeformat"] = "unixtime"
        stamp(m) ==
            IF unix THEN IntVal(m * 60)
            ELSE IF name = "weather_daily"
            THEN IsoStr("date", m \div 1440, 0, 0, 0, "")
            ELSE IsoStr("minute", m \div 1440, (m % 1440) \div 60, m % 60, 0, "")
        w == RequestedWindow(name, p, t)
        times == IF w.lo = w.hi THEN <<stamp(w.lo)>> ELSE <<stamp(w.lo), stamp(w.hi)>>
    IN  IF name = "weather_current"
        THEN Put(top, "current", [time |-> stamp(t - (t % 15)), interval |-> IntVal(900),
                                  temperature_2m |-> IntVal(101)])
        ELSE Put(top, SectionKey(name),
                 [time |-> times, temperature_2m |-> ValueArray(1, Len(times))])

\* the API rejects a window that ends before it starts (HTTP 400)
Rejected(name, p, t) ==
    /\ name # "weather_current"
    /\ RequestedWindow(name, p, t).lo > RequestedWindow(name, p, t).hi

\* the API answers location l's request, or rejects it and the run fails
Serve(l) ==
    /\ pc[l] = "REQUESTING"
    /\ upstream[l] = EmptyDict
    /\ IF Rejected(stream, params[l], now)
       THEN /\ pc' = [pc EXCEPT ![l] = "FAILED"]
            /\ UNCHANGED upstream
       ELSE /\ upstream' = [upstream EXCEPT ![l] = Answer(stream, params[l], now)]
            /\ UNCHANGED pc
    /\ UNCHANGED <<tapvars, run, config, stream, now, tzlocal, state, current_context,
                   params, response, location_name, idx, emitted>>

\* the answer of the API reaches parse_response
Deliver(l) ==
    /\ upstream[l] # EmptyDict
    /\ Receive(l)

\* the rank of a replication key value among the values of one stream: an
\* integer by its value, a timestamp string by the instant it is written as
Rank(v) ==
    IF v.ty = "int" THEN v.v
    ELSE ((v.day * 24 + v.hh) * 60 + v.mm) * 60 + v.ss

\* the replication key values location l's current run has emitted
EmittedKeys(l) ==
    { emitted[k].record[replication_key(stream)] :
        k \in { j \in DOMAIN emitted : emitted[j].loc = l /\ emitted[j].run = run[l] } }

\* the checkpoint the host holds for location l after its run: the largest
\* replication key value the run emitted (the old one when it emitted nothing)
Checkpoint(l) ==
    IF EmittedKeys(l) = {} THEN state[l]
    ELSE [replication_key |-> replication_key(stream),
          replication_key_value |->
              CHOOSE v \in EmittedKeys(l) :
                  \A w \in EmittedKeys(l) : Rank(w) <= Rank(v)]

\* the sync is over, every location's run done: the host stores each
\* location's checkpoint and the next sync of the stream may start
Commit ==
    /\ \A l \in LocNames : pc[l] = "DONE"
    /\ \E l \in LocNames : Ran(l)
    /\ \A l \in LocNames : Ran(l) => run[l] + 1 < MaxRuns
    /\ state' = [l \in LocNames |-> IF Ran(l) THEN Checkpoint(l) ELSE state[l]]
    /\ run' = [l \in LocNames |-> IF Ran(l) THEN run[l] + 1 ELSE run[l]]
    /\ pc' = [l \in LocNames |-> IF Ran(l) THEN "PENDING" ELSE pc[l]]
    /\ upstream' = [l \in LocNames |-> EmptyDict]
    /\ idx' = [l \in LocNames |-> 0]
    /\ UNCHANGED <<tapvars, config, stream, now, tzlocal, current_context, params,
                   response, location_name, emitted>>

\* the wall clock moves forward
Tick ==
    /\ now + TickStep <= StartOfRuns + MaxTicks * TickStep
    /\ now' = now + TickStep
    /\ UNCHANGED <<tapvars, run, config, stream, tzlocal, state, current_context, pc,
                   params, upstream, response, location_name, idx, emitted>>

\* the configurations of the successive runs: the defaults, a window counted
\* in hours, epoch timestamps, and configured historical dates
RunConfigs(name) ==
    {BaseConfig}
    \cup (IF name \in {"weather_hourly", "weather_daily", "weather_historical"}
          THEN {Put(BaseConfig, "timeformat", "unixtime")}
          ELSE {})
    \cup (IF name \in {"weather_hourly", "weather_daily"}
          THEN {Put(BaseConfig, "forecast_hours", 24), Put(BaseConfig, "forecast_days", 3)}
          ELSE {})
    \cup (IF name = "weather_historical"
          THEN { SetOpt(SetOpt(BaseConfig, "start_date", sd), "end_date", ed) :
                   sd \in {<< >>, <<IsoStr("date", NowDay - 3, 0, 0, 0, "")>>},
                   ed \in {<< >>, <<IsoStr("date", NowDay - 2, 0, 0, 0, "")>>,
                           <<IsoStr("date", NowDay - 35, 0, 0, 0, "")>>} }
          ELSE {})

\* the first run of one location on a windowed stream (its checkpoint empty,
\* or an integer left by an earlier version), or of both locations on the
\* forecast-metadata stream
InitRuns ==
    /\ tzlocal = 0
    /\ \E name \in StreamNames : \E cfg \in RunConfigs(name) :
          IF name = "weather_forecast"
          THEN /\ pc = [x \in LocNames |-> "PENDING"]
               /\ Idle(cfg, name, StartOfRuns, [x \in LocNames |-> EmptyDict],
                       [x \in LocNames |-> EmptyDict])
          ELSE \E l \in LocNames,
                  st \in {EmptyDict, [replication_key |-> replication_key(name),
                                      replication_key_value |-> IntVal(1700000000)]} :
               /\ pc = [x \in LocNames |-> IF x = l THEN "PENDING" ELSE "DONE"]
               /\ Idle(cfg, name, StartOfRuns,
                       [x \in LocNames |-> IF x = l THEN st ELSE EmptyDict],
                       [x \in LocNames |-> EmptyDict])

NextRuns ==
    \/ \E l \in LocNames :
           StartRun(l) \/ Serve(l) \/ Deliver(l) \/ Emit(l) \/ Exhaust(l)
    \/ Commit
    \/ Tick

SpecRuns == InitRuns /\ [][NextRuns]_vars

-----------------------------------------------------------------------------
(* Properties of the parameter set (checked under SpecParams) *)

Built(l) == pc[l] = "BUILT"
Has(l, k) == k \in DOMAIN params[l]
RelativeKeys == {"forecast_hours", "past_hours", "forecast_days", "past_days"}
AbsoluteKeys == {"start_hour", "end_hour", "start_date", "end_date"}
ForecastEndpointStreams ==
    {"weather_forecast", "weather_hourly", "weather_daily", "weather_minutely_15"}
HasValidCheckpoint(l) ==
    /\ "replication_key_value" \in DOMAIN state[l]
    /\ state[l]["replication_key_value"] \in ValidCheckpoints
HasMalformedCheckpoint(l) ==
    /\ "replication_key_value" \in DOMAIN state[l]
    /\ state[l]["replication_key_value"] \in {Garbage, EmptyStr}

\* C1: on the forecast endpoint, a parameter set never holds both the hour
\* count and the day count of one direction (forecast_hours with
\* forecast_days, past_hours with past_days), whatever the configuration and
\* the checkpoint.
C1_HoursDaysExclusive ==
    \A l \in LocNames :
        (Built(l) /\ stream \in ForecastEndpointStreams) =>
            /\ ~(Has(l, "forecast_hours") /\ Has(l, "forecast_days"))
            /\ ~(Has(l, "past_hours") /\ Has(l, "past_days"))

\* both counts of both directions are configured and the hourly stream sent
\* the hour counts
C1_Witness ==
    \E l \in LocNames :
        /\ Built(l) /\ stream = "weather_hourly"
        /\ {"forecast_hours", "forecast_days", "past_hours", "past_days"}
              \subseteq DOMAIN config
        /\ Has(l, "forecast_hours") /\ Has(l, "past_hours")

\* C2: no parameter set of any stream holds a relative window key together
\* with an absolute one; the hourly and daily streams set no start_* / end_*
\* key without a checkpoint value, and hold none of the four count keys once
\* they set one.
C2_RelativeAbsoluteExclusive ==
    \A l \in LocNames :
        Built(l) =>
            /\ ~(RelativeKeys \cap DOMAIN params[l] # {}
                 /\ AbsoluteKeys \cap DOMAIN params[l] # {})
            /\ (stream \in {"weather_hourly", "weather_daily"}
                /\ ~HasReplicationValue(state[l]))
                  => AbsoluteKeys \cap DOMAIN params[l] = {}
            /\ (stream \in {"weather_hourly", "weather_daily"}
                /\ AbsoluteKeys \cap DOMAIN params[l] # {})
                  => RelativeKeys \cap DOMAIN params[l] = {}

\* the daily stream built an absolute window from a checkpoint while day
\* counts were configured
C2_Witness ==
    \E l \in LocNames :
        /\ Built(l) /\ stream = "weather_daily"
        /\ HasValidCheckpoint(l)
        /\ {"forecast_days", "past_days"} \subseteq DOMAIN config
        /\ "forecast_hours" \notin DOMAIN config
        /\ Has(l, "start_date") /\ Has(l, "end_date")

\* the first 16 characters of a timestamp string, YYYY-MM-DDTHH:MM (a date
\* alone is taken at 00:00)
TruncateToMinute(v) ==
    IF v.kind = "date" THEN IsoStr("minute", v.day, 0, 0, 0, "")
    ELSE IsoStr("minute", v.day, v.hh, v.mm, 0, "")

\* the first 10 characters of a timestamp string, YYYY-MM-DD
TruncateToDate(v) == IsoStr("date", v.day, 0, 0, 0, "")

\* C3: with a valid ISO8601 checkpoint V, the hourly stream's start_hour is V
\* truncated to the minute and the daily stream's start_date is V's date, and
\* the paired end_hour / end_date is in the same parameter set.
C3_CheckpointRoundTrip ==
    \A l \in LocNames :
        (Built(l) /\ HasValidCheckpoint(l)) =>
            LET V == state[l]["replication_key_value"] IN
            /\ stream = "weather_hourly" =>
                 /\ Has(l, "start_hour") /\ Has(l, "end_hour")
                 /\ params[l]["start_hour"] = TruncateToMinute(V)
            /\ stream = "weather_daily" =>
                 /\ Has(l, "start_date") /\ Has(l, "end_date")
                 /\ params[l]["start_date"] = TruncateToDate(V)

\* the hourly stream built its window from a checkpoint written with seconds
\* and a UTC offset
C3_Witness ==
    \E l \in LocNames :
        /\ Built(l) /\ stream = "weather_hourly" /\ HasValidCheckpoint(l)
        /\ state[l]["replication_key_value"].kind = "second"
        /\ state[l]["replication_key_value"].tz = "+02:00"
        /\ state[l]["replication_key_value"].mm = 30
        /\ Has(l, "start_hour")

\* C7: with no checkpoint, every windowed stream of the forecast endpoint
\* holds exactly one window key per direction: the hour count with the
\* configured value when it is configured, otherwise the day count with the
\* configured value, 7 forecast days and 0 past days by default.
C7_RelativeWindowRule ==
    \A l \in LocNames :
        (Built(l) /\ ~HasReplicationValue(state[l])
         /\ stream \in {"weather_hourly", "weather_daily", "weather_minutely_15"}) =>
            /\ IF "forecast_hours" \in DOMAIN config
               THEN /\ Has(l, "forecast_hours") /\ ~Has(l, "forecast_days")
                    /\ params[l]["forecast_hours"] = config["forecast_hours"]
               ELSE /\ Has(l, "forecast_days") /\ ~Has(l, "forecast_hours")
                    /\ params[l]["forecast_days"] = Get(config, "forecast_days", 7)
            /\ IF "past_hours" \in DOMAIN config
               THEN /\ Has(l, "past_hours") /\ ~Has(l, "past_days")
                    /\ params[l]["past_hours"] = config["past_hours"]
               ELSE /\ Has(l, "past_days") /\ ~Has(l, "past_hours")
                    /\ params[l]["past_days"] = Get(config, "past_days", 0)

\* C8: a checkpoint string that is no ISO8601 timestamp gives exactly the
\* parameter set of the same request without a checkpoint; the hourly and
\* daily streams keep their relative count keys and set no start_* / end_*.
C8_MalformedCheckpointIgnored ==
    \A l \in LocNames :
        (Built(l) /\ HasMalformedCheckpoint(l)) =>
            /\ params[l] =
                 get_url_params(stream, config, ContextOf(config, l), EmptyDict, now)
            /\ stream \in {"weather_hourly", "weather_daily"} =>
                 /\ AbsoluteKeys \cap DOMAIN params[l] = {}
                 /\ RelativeKeys \cap DOMAIN params[l] # {}
            /\ (stream = "weather_historical" /\ "start_date" \in DOMAIN config) =>
                 params[l]["start_date"] = config["start_date"]

\* the hourly stream built a request while its checkpoint was a non-empty
\* string that does not parse
C8_Witness ==
    \E l \in LocNames :
        /\ Built(l) /\ stream = "weather_hourly"
        /\ "replication_key_value" \in DOMAIN state[l]
        /\ state[l]["replication_key_value"] = Garbage
        /\ Has(l, "hourly")

\* the upstream defaults of the five suppressed settings
UnitDefaults ==
    [temperature_unit |-> "celsius", wind_speed_unit |-> "kmh",
     precipitation_unit |-> "mm", timeformat |-> "iso8601", cell_selection |-> "land"]

\* C10: each of temperature_unit, wind_speed_unit, precipitation_unit,
\* timeformat and cell_selection is in the parameter set, with the configured
\* value, exactly when it is configured to a value other than its default;
\* unset or at the default it is absent.
C10_DefaultSuppression ==
    \A l \in LocNames :
        Built(l) =>
            \A k \in DOMAIN UnitDefaults :
                /\ Has(l, k) <=> (k \in DOMAIN config /\ config[k] # UnitDefaults[k])
                /\ Has(l, k) => params[l][k] = config[k]

\* a request was built with wind_speed_unit set to its default, cell_selection
\* unset and temperature_unit set to fahrenheit
C10_Witness ==
    \E l \in LocNames :
        /\ Built(l)
        /\ "wind_speed_unit" \in DOMAIN config /\ config["wind_speed_unit"] = "kmh"
        /\ "cell_selection" \notin DOMAIN config
        /\ Has(l, "temperature_unit") /\ ~Has(l, "wind_speed_unit")

-----------------------------------------------------------------------------
(* Properties of the runs and of the records *)

WindowedStreams ==
    {"weather_hourly", "weather_daily", "weather_minutely_15", "weather_historical"}

\* the variable list configured for the stream, or its documented default
ConfiguredVars ==
    CASE stream = "weather_daily" -> Get(config, "daily_variables", DefaultDailyVars)
      [] stream = "weather_current" -> Get(config, "current_variables", DefaultCurrentVars)
      [] stream = "weather_minutely_15" ->
             Get(config, "minutely_15_variables", DefaultMinutely15Vars)
      [] OTHER -> Get(config, "hourly_variables", DefaultHourlyVars)

\* the section of location l's response the stream reads
SectionOf(l) == Get(response[l], SectionKey(stream), EmptyDict)

\* C5: when the host interleaves the runs of two locations on one stream
\* instance, every emitted record still carries the name of the location
\* whose request produced its response.
C5_RecordsNameTheirLocation ==
    \A k \in DOMAIN emitted : emitted[k].record["location_name"] = emitted[k].loc

\* C6: every record a stream yields has exactly the fields of the stream's
\* schema, whatever variable lists are configured and whatever arrays the
\* response holds.
C6_SchemaRecordParity ==
    \A k \in DOMAIN emitted :
        DOMAIN emitted[k].record = DOMAIN schema(stream, config)

\* the hourly stream yielded a record for two configured variables from a
\* response that has an array for one of them only
C6_Witness ==
    \E k \in DOMAIN emitted :
        /\ stream = "weather_hourly"
        /\ ConfiguredVars = <<"weather_code", "temperature_2m">>
        /\ "weather_code" \notin DOMAIN SectionOf(emitted[k].loc)
        /\ "temperature_2m" \in DOMAIN SectionOf(emitted[k].loc)

\* C9: flattening a windowed response, the record at index i of the time
\* array holds, for every configured variable, values[i] when the variable's
\* array is there and longer than i, and null otherwise; the record is emitted
\* all the same: a finished run has yielded one record per timestamp.
C9_NullFill ==
    stream \in WindowedStreams =>
        /\ \A k \in DOMAIN emitted :
              LET e == emitted[k]
                  sec == SectionOf(e.loc)
              IN  \A var \in Range(ConfiguredVars) :
                      /\ var \in DOMAIN e.record
                      /\ e.record[var] =
                           IF var \in DOMAIN sec /\ e.i <= Len(sec[var])
                           THEN sec[var][e.i] ELSE Null
        /\ \A l \in LocNames :
              (pc[l] = "DONE" /\ response[l] # EmptyDict) =>
                  Cardinality({k \in DOMAIN emitted : emitted[k].loc = l})
                      = Len(Get(SectionOf(l), "time", << >>))

\* a windowed stream yielded the record of the second timestamp while a
\* configured variable's array held one value only
C9_Witness ==
    \E k \in DOMAIN emitted :
        /\ stream \in WindowedStreams
        /\ emitted[k].i = 2
        /\ "temperature_2m" \in Range(ConfiguredVars)
        /\ "temperature_2m" \in DOMAIN SectionOf(emitted[k].loc)
        /\ Len(SectionOf(emitted[k].loc)["temperature_2m"]) = 1
        /\ emitted[k].record["temperature_2m"] = Null

-----------------------------------------------------------------------------
(* Properties of discovery and fan-out (checked under SpecDiscover) *)

\* the configured locations
ConfiguredLocations == Get(config, "locations", << >>)

\* C11: every discovered stream's partitions is a list holding exactly one
\* context per configured location, in configuration order, each with that
\* location's name, latitude and longitude; so N locations and M discovered
\* streams make N x M run units.
C11_FanOut ==
    \A k \in DOMAIN stream_partitions :
        LET p == stream_partitions[k] IN
        /\ ~p.is_none
        /\ Len(p.contexts) = Len(ConfiguredLocations)
        /\ \A i \in DOMAIN p.contexts :
              /\ p.contexts[i]["location_name"] = ConfiguredLocations[i]["name"]
              /\ p.contexts[i]["latitude"] = ConfiguredLocations[i]["latitude"]
              /\ p.contexts[i]["longitude"] = ConfiguredLocations[i]["longitude"]

\* the names of streams_to_sync (or of its default) that are known, in order
KnownSelected ==
    SelectSeq(Get(config, "streams_to_sync",
                  <<"weather_forecast", "weather_hourly", "weather_daily">>),
              LAMBDA n : n \in StreamNames)

\* C12: discover_streams returns one instance per known name of
\* streams_to_sync, in the configured order; an unknown name is logged as a
\* warning and left out, and the call still returns; with streams_to_sync
\* unset the result is weather_forecast, weather_hourly, weather_daily.
C12_StreamSelection ==
    tap_pc = "DISCOVERED" =>
        /\ discovered = KnownSelected
        /\ warnings = SelectSeq(Get(config, "streams_to_sync", << >>),
                                LAMBDA n : n \notin StreamNames)
        /\ "streams_to_sync" \notin DOMAIN config =>
               discovered = <<"weather_forecast", "weather_hourly", "weather_daily">>

\* discovery returned the known stream configured after an unknown one
C12_Witness ==
    /\ tap_pc = "DISCOVERED"
    /\ "streams_to_sync" \in DOMAIN config
    /\ config["streams_to_sync"] = <<"weather_unknown", "weather_current">>
    /\ discovered = <<"weather_current">>
    /\ warnings = <<"weather_unknown">>

-----------------------------------------------------------------------------
(* Properties of the flattening order (checked under SpecParse) *)

\* the time array of location l's response
TimesOf(l) == Get(SectionOf(l), "time", << >>)

\* the instant a time value denotes, in seconds (strings as written, taken
\* as UTC)
Instant(v) ==
    IF v.ty = "int" THEN v.v
    ELSE (v.day * 1440 + v.hh * 60 + v.mm) * 60 + v.ss

\* the records handed to the host for location l, in order
RecordsFor(l) == SelectSeq(emitted, LAMBDA e : e.loc = l)

\* C14: a windowed stream's run yields its records in the index order of the
\* response's time array, one per element and none twice: the j-th record
\* of the run is the one of times[j], its replication key denotes the instant
\* of times[j], a finished run has yielded Len(times) records, and where the
\* upstream array is non-decreasing so are the emitted replication keys.
C14_ArrayOrder ==
    stream \in WindowedStreams =>
        \A l \in LocNames :
            LET recs == RecordsFor(l)
                times == TimesOf(l)
                key == replication_key(stream)
            IN  /\ Len(recs) <= Len(times)
                /\ (pc[l] = "DONE" /\ Ran(l)) => Len(recs) = Len(times)
                /\ \A j \in DOMAIN recs :
                      /\ recs[j].i = j
                      /\ Instant(recs[j].record[key]) = Instant(times[j])
                /\ (\A j \in 1..(Len(times) - 1) :
                         Instant(times[j]) <= Instant(times[j + 1]))
                     => \A j \in 1..(Len(recs) - 1) :
                            Instant(recs[j].record[key]) <= Instant(recs[j + 1].record[key])

\* a run has yielded all the records of an array the upstream sent latest
\* first, in that order
C14_Witness ==
    \E l \in LocNames :
        /\ stream = "weather_hourly" /\ pc[l] = "DONE"
        /\ Len(RecordsFor(l)) = MaxTimes
        /\ Instant(TimesOf(l)[1]) > Instant(TimesOf(l)[MaxTimes])
        /\ RecordsFor(l)[1].record["time"] = TimesOf(l)[1]

\* C15: a windowed stream whose response has no section, no time array or an
\* empty time array yields no record and ends its run normally, whatever
\* variable arrays the response holds.
C15_EmptyTimes ==
    stream \in WindowedStreams =>
        \A l \in LocNames :
            (Ran(l) /\ pc[l] \notin {"PENDING", "REQUESTING", "FAILED"}
             /\ Len(TimesOf(l)) = 0) =>
                /\ pc[l] = "DONE"
                /\ RecordsFor(l) = << >>

\* the historical stream finished a run on a response whose section holds
\* two values of a configured variable and no time array
C15_Witness ==
    \E l \in LocNames :
        /\ stream = "weather_historical" /\ pc[l] = "DONE" /\ Ran(l)
        /\ SectionKey(stream) \in DOMAIN response[l]
        /\ "time" \notin DOMAIN SectionOf(l)
        /\ "temperature_2m" \in DOMAIN SectionOf(l)
        /\ Len(SectionOf(l)["temperature_2m"]) = 2
        /\ "temperature_2m" \in Range(ConfiguredVars)
        /\ emitted = << >>

-----------------------------------------------------------------------------
(* Properties of the absolute window (checked under SpecParams) *)

\* the date n days before the clock value, as strftime("%Y-%m-%d") writes it
DaysBeforeNow(n) == IsoStr("date", (now \div 1440) - n, 0, 0, 0, "")

\* C16: with a valid ISO8601 checkpoint, the hourly, daily and 15-minutely
\* streams each build a start_* / end_* window from the checkpoint and send
\* neither forecast_hours nor forecast_days.
C16_AbsoluteModeEveryWindowed ==
    \A l \in LocNames :
        (Built(l) /\ HasValidCheckpoint(l)
         /\ stream \in {"weather_hourly", "weather_daily", "weather_minutely_15"}) =>
            /\ \/ Has(l, "start_hour") /\ Has(l, "end_hour")
               \/ Has(l, "start_date") /\ Has(l, "end_date")
            /\ ~Has(l, "forecast_hours") /\ ~Has(l, "forecast_days")

\* C17 as stated: the historical stream always sends start_date and end_date
\* and no count key; start_date is the checkpoint's date when the checkpoint
\* is valid and otherwise 30 days before now; end_date is the configured
\* end_date when set and otherwise the day before now.
C17_HistoricalWindow_AsStated ==
    \A l \in LocNames :
        (Built(l) /\ stream = "weather_historical") =>
            /\ Has(l, "start_date") /\ Has(l, "end_date")
            /\ RelativeKeys \cap DOMAIN params[l] = {}
            /\ params[l]["start_date"] =
                 IF HasValidCheckpoint(l)
                 THEN TruncateToDate(state[l]["replication_key_value"])
                 ELSE DaysBeforeNow(30)
            /\ params[l]["end_date"] =
                 IF "end_date" \in DOMAIN config THEN config["end_date"]
                 ELSE DaysBeforeNow(1)

\* C17, amended: as above, but without a valid checkpoint start_date is the
\* configured start_date when one is set, and 30 days before now only when
\* none is.
C17_HistoricalWindow ==
    \A l \in LocNames :
        (Built(l) /\ stream = "weather_historical") =>
            /\ Has(l, "start_date") /\ Has(l, "end_date")
            /\ RelativeKeys \cap DOMAIN params[l] = {}
            /\ params[l]["start_date"] =
                 IF HasValidCheckpoint(l)
                 THEN TruncateToDate(state[l]["replication_key_value"])
                 ELSE IF "start_date" \in DOMAIN config THEN config["start_date"]
                 ELSE DaysBeforeNow(30)
            /\ params[l]["end_date"] =
                 IF "end_date" \in DOMAIN config THEN config["end_date"]
                 ELSE DaysBeforeNow(1)

\* the historical stream built a first request (no checkpoint) with a
\* configured start_date, while count keys were configured too
C17_Witness ==
    \E l \in LocNames :
        /\ Built(l) /\ stream = "weather_historical"
        /\ state[l] = EmptyDict
        /\ {"start_date", "forecast_days", "past_hours"} \subseteq DOMAIN config
        /\ "end_date" \notin DOMAIN config
        /\ params[l]["start_date"] = config["start_date"]
        /\ params[l]["end_date"] = DaysBeforeNow(1)

-----------------------------------------------------------------------------
(* Properties of the record fields (checked under SpecParse) and of the    *)
(* schemas (checked under SpecDiscover)                                    *)

\* C18: on the hourly, 15-minutely and historical streams every record holds
\* both representations of its timestamp: for an upstream ISO8601 string the
\* string itself in `time` and the derived epoch integer beside it, for an
\* upstream epoch integer the derived ISO8601 string in `time` and the integer
\* beside it.
C18_BothTimeRepresentations ==
    stream \in {"weather_hourly", "weather_minutely_15", "weather_historical"} =>
        \A k \in DOMAIN emitted :
            LET e == emitted[k]
                tv == TimesOf(e.loc)[e.i]
            IN  /\ "time_unix" \in DOMAIN e.record
                /\ e.record["time_unix"].ty = "int"
                /\ e.record["time"].ty = "str"
                /\ Instant(e.record["time"]) = Instant(tv)
                /\ tv.ty = "str" =>
                      /\ e.record["time"] = tv
                      /\ tzlocal = 0 => e.record["time_unix"].v = Instant(tv)
                /\ tv.ty = "int" => e.record["time_unix"] = tv

\* the run of location l is over
Finished(l) == Ran(l) /\ pc[l] = "DONE"

\* the `current` object of location l's response ({} when it has none)
CurrentOf(l) == Get(response[l], "current", EmptyDict)

\* the record r holds the time and interval of location l's current object
\* and every configured current variable, null where the object has none
IsCurrentRecordOf(r, l) ==
    /\ r["time"] = Get(CurrentOf(l), "time", Null)
    /\ r["interval"] = Get(CurrentOf(l), "interval", Null)
    /\ \A var \in Range(ConfiguredVars) :
          /\ var \in DOMAIN r
          /\ r[var] = Get(CurrentOf(l), var, Null)

\* C19 as stated: the current-conditions stream yields exactly one record
\* per location response, with the time and interval of the response's
\* current object and one field per configured variable, null when absent.
C19_CurrentOneRecord_AsStated ==
    stream = "weather_current" =>
        \A l \in LocNames :
            Finished(l) =>
                /\ Len(RecordsFor(l)) = 1
                /\ IsCurrentRecordOf(RecordsFor(l)[1].record, l)

\* C19, amended: exactly one such record for a response that holds a
\* non-empty current object, and no record for a response whose current
\* object is missing or empty.
C19_CurrentOneRecord ==
    stream = "weather_current" =>
        \A l \in LocNames :
            /\ Len(RecordsFor(l)) <= 1
            /\ Finished(l) =>
                  IF Truthy(CurrentOf(l))
                  THEN /\ Len(RecordsFor(l)) = 1
                       /\ IsCurrentRecordOf(RecordsFor(l)[1].record, l)
                  ELSE RecordsFor(l) = << >>

\* the current stream yielded the record of an object that holds one of the
\* two configured variables and no interval
C19_Witness ==
    \E l \in LocNames :
        /\ stream = "weather_current" /\ Finished(l)
        /\ ConfiguredVars = <<"weather_code", "temperature_2m">>
        /\ DOMAIN CurrentOf(l) = {"time", "temperature_2m"}
        /\ Len(RecordsFor(l)) = 1
        /\ RecordsFor(l)[1].record["weather_code"] = Null
        /\ RecordsFor(l)[1].record["interval"] = Null

\* the discovered streams whose schema has one property per configured
\* variable
VariableStreams == Range(discovered) \ {"weather_forecast"}

\* the variable list configured for the stream named `name`, or its default
ConfiguredVarsOf(name) ==
    CASE name = "weather_daily" -> Get(config, "daily_variables", DefaultDailyVars)
      [] name = "weather_current" -> Get(config, "current_variables", DefaultCurrentVars)
      [] name = "weather_minutely_15" ->
             Get(config, "minutely_15_variables", DefaultMinutely15Vars)
      [] OTHER -> Get(config, "hourly_variables", DefaultHourlyVars)

\* the JSON type of a declared property: timestamps and dates are strings
JsonType(t) == IF t \in {"string", "date-time", "date"} THEN "string" ELSE t

\* C20: in the schema of every discovered stream a configured variable named
\* weather_code or is_day is an integer, one named time, sunrise or sunset a
\* string or timestamp, every other one a number; and no variable name has
\* two different types in the schemas of two discovered streams.
C20_TypeTable ==
    /\ \A n \in VariableStreams : \A var \in Range(ConfiguredVarsOf(n)) :
          JsonType(schema(n, config)[var]) =
              IF var \in {"weather_code", "is_day"} THEN "integer"
              ELSE IF var \in {"time", "sunrise", "sunset"} THEN "string"
              ELSE "number"
    /\ \A n1, n2 \in VariableStreams :
          \A var \in Range(ConfiguredVarsOf(n1)) \cap Range(ConfiguredVarsOf(n2)) :
              JsonType(schema(n1, config)[var]) = JsonType(schema(n2, config)[var])

-----------------------------------------------------------------------------
(* Properties of the end bound (checked under SpecParams) *)

\* the forecast span a relative request of the hourly stream asks for, in
\* minutes: forecast_hours when configured, otherwise forecast_days (7)
HourlyRelativeSpan ==
    IF "forecast_hours" \in DOMAIN config THEN 60 * config["forecast_hours"]
    ELSE 1440 * Get(config, "forecast_days", 7)

\* the span of the daily stream, counted in days: forecast_days (7)
DailyRelativeSpan == 1440 * Get(config, "forecast_days", 7)

\* the clock value t as strftime("%Y-%m-%dT%H:%M") / ("%Y-%m-%d") writes it
HourOf(t) == IsoStr("minute", t \div 1440, (t % 1440) \div 60, t % 60, 0, "")
DateOf(t) == IsoStr("date", t \div 1440, 0, 0, 0, "")

\* C21: with a valid checkpoint, end_hour of the hourly stream and end_date
\* of the daily stream are now + the forecast span the stream requests in
\* relative mode under the same configuration.
C21_EndBoundIsRelativeSpan ==
    \A l \in LocNames :
        (Built(l) /\ HasValidCheckpoint(l)) =>
            /\ stream = "weather_hourly" =>
                  /\ Has(l, "end_hour")
                  /\ params[l]["end_hour"] = HourOf(now + HourlyRelativeSpan)
            /\ stream = "weather_daily" =>
                  /\ Has(l, "end_date")
                  /\ params[l]["end_date"] = DateOf(now + DailyRelativeSpan)

-----------------------------------------------------------------------------
(* Properties of the location, variable and passthrough keys (checked      *)
(* under SpecParams)                                                       *)

\* the configured location named l
LocationNamed(l) ==
    CHOOSE loc \in Range(ConfiguredLocations) : loc["name"] = l

\* C22: a request built for a location has the location's latitude and
\* longitude, its elevation exactly when the location sets one (0 included),
\* and as timezone the location's (non-empty) override when there is one,
\* otherwise the global timezone setting, otherwise "auto".
C22_LocationParams ==
    \A l \in LocNames :
        Built(l) =>
            LET loc == LocationNamed(l) IN
            /\ Has(l, "latitude") /\ params[l]["latitude"] = loc["latitude"]
            /\ Has(l, "longitude") /\ params[l]["longitude"] = loc["longitude"]
            /\ Has(l, "elevation") <=> "elevation" \in DOMAIN loc
            /\ Has(l, "elevation") => params[l]["elevation"] = loc["elevation"]
            /\ Has(l, "timezone")
            /\ params[l]["timezone"] =
                 IF "timezone" \in DOMAIN loc /\ loc["timezone"] # ""
                 THEN loc["timezone"]
                 ELSE IF "timezone" \in DOMAIN config THEN config["timezone"]
                 ELSE "auto"

\* a request was built for a location with elevation 0 and no override,
\* under a global timezone
C22_Witness ==
    \E l \in LocNames :
        /\ Built(l)
        /\ "elevation" \in DOMAIN LocationNamed(l)
        /\ LocationNamed(l)["elevation"] = 0
        /\ "timezone" \notin DOMAIN LocationNamed(l)
        /\ "timezone" \in DOMAIN config
        /\ params[l]["elevation"] = 0
        /\ params[l]["timezone"] = "UTC"

\* the request parameter that carries the stream's variables
VariableParam ==
    CASE stream = "weather_daily" -> "daily"
      [] stream = "weather_current" -> "current"
      [] stream = "weather_minutely_15" -> "minutely_15"
      [] OTHER -> "hourly"

\* C23: each stream sends its whole configured variable list (or its
\* default), comma-joined in configured order, under its own parameter; the
\* forecast-metadata stream sends the first hourly variable only; an empty
\* list is sent as the empty string by the hourly, daily, current and
\* historical streams and not at all by the 15-minutely and forecast-metadata
\* streams; a checkpoint (absolute mode) leaves the key as it is.
C23_VariableSelection ==
    \A l \in LocNames :
        Built(l) =>
            LET key == VariableParam
                list == IF stream = "weather_forecast"
                        THEN Get(config, "hourly_variables", <<"temperature_2m">>)
                        ELSE ConfiguredVars
                relative == get_url_params(stream, config, ContextOf(config, l),
                                           EmptyDict, now)
            IN  /\ stream \in {"weather_hourly", "weather_daily", "weather_current",
                               "weather_historical"} =>
                      /\ Has(l, key) /\ params[l][key] = CommaJoin(list)
                /\ stream = "weather_minutely_15" =>
                      IF list = << >> THEN ~Has(l, key)
                      ELSE Has(l, key) /\ params[l][key] = CommaJoin(list)
                /\ stream = "weather_forecast" =>
                      IF list = << >> THEN ~Has(l, key)
                      ELSE Has(l, key) /\ params[l][key] = CommaJoin(<<list[1]>>)
                /\ Has(l, key) <=> key \in DOMAIN relative
                /\ Has(l, key) => params[l][key] = relative[key]
                /\ {"hourly", "daily", "current", "minutely_15"} \cap DOMAIN params[l]
                      \subseteq {key}

\* the forecast-metadata stream built a request in absolute-capable state
\* (a checkpoint is there) from a list of two hourly variables
C23_Witness ==
    \E l \in LocNames :
        /\ Built(l) /\ stream = "weather_forecast"
        /\ HasReplicationValue(state[l])
        /\ "hourly_variables" \in DOMAIN config
        /\ config["hourly_variables"] = <<"weather_code", "temperature_2m">>
        /\ params[l]["hourly"] = CommaJoin(<<"weather_code">>)

\* C26: in every stream's request, models is there (comma-joined) exactly
\* when a non-empty model list is configured, apikey exactly when a
\* non-empty API key is, tilt and azimuth each exactly when it is set, each
\* with the configured value (0 stays 0); no stream step and no absolute-mode
\* deletion removes them.
C26_OptionalPassthrough ==
    \A l \in LocNames :
        Built(l) =>
            /\ Has(l, "models") <=>
                  ("models" \in DOMAIN config /\ config["models"] # << >>)
            /\ Has(l, "models") => params[l]["models"] = CommaJoin(config["models"])
            /\ Has(l, "apikey") <=>
                  ("api_key" \in DOMAIN config /\ config["api_key"] # "")
            /\ Has(l, "apikey") => params[l]["apikey"] = config["api_key"]
            /\ \A k \in {"tilt", "azimuth"} :
                  /\ Has(l, k) <=> k \in DOMAIN config
                  /\ Has(l, k) => params[l][k] = config[k]

\* the hourly stream built an absolute window and kept a tilt of 0, two
\* models and the API key, with no azimuth set
C26_Witness ==
    \E l \in LocNames :
        /\ Built(l) /\ stream = "weather_hourly"
        /\ Has(l, "start_hour")
        /\ "tilt" \in DOMAIN config /\ config["tilt"] = 0
        /\ "azimuth" \notin DOMAIN config
        /\ Has(l, "tilt") /\ params[l]["tilt"] = 0 /\ ~Has(l, "azimuth")
        /\ Has(l, "apikey")
        /\ Has(l, "models") /\ Len(config["models"]) = 2

-----------------------------------------------------------------------------
(* Properties of the forecast-metadata record (checked under SpecRuns and  *)
(* Spec)                                                                   *)

\* the entries of `emitted` that location l's run number r handed over
EntriesOf(l, r) ==
    { k \in DOMAIN emitted : emitted[k].loc = l /\ emitted[k].run = r }

\* C24: the forecast-metadata stream emits exactly one record per location
\* response, built from the response's top-level fields; its replication key
\* generated_at is the wall clock at the moment the response is processed
\* (the clock moving forward only), and over the successive records of the
\* stream these values never decrease.
C24_ForecastMetadataRecord ==
    stream = "weather_forecast" =>
        /\ \A l \in LocNames : \A r \in 0..run[l] :
              Cardinality(EntriesOf(l, r)) =
                  IF r < run[l] \/ pc[l] \in {"EMITTING", "DONE"} THEN 1 ELSE 0
        /\ \A k \in DOMAIN emitted :
              LET e == emitted[k] IN
              /\ e.record["generated_at"] =
                    IsoStr("second", e.at \div 1440, (e.at % 1440) \div 60,
                           e.at % 60, 0, "+00:00")
              /\ \A f \in {"latitude", "longitude", "elevation", "timezone",
                            "timezone_abbreviation", "utc_offset_seconds",
                            "generationtime_ms"} :
                    e.record[f] = response[e.loc][f]
        /\ \A j, k \in DOMAIN emitted :
              j < k => Rank(emitted[j].record["generated_at"])
                          <= Rank(emitted[k].record["generated_at"])

\* both locations' responses were processed, at two different clock values
C24_Witness ==
    /\ stream = "weather_forecast"
    /\ \A l \in LocNames : pc[l] = "DONE" /\ Ran(l)
    /\ \E j, k \in DOMAIN emitted :
          /\ j < k /\ emitted[j].loc # emitted[k].loc
          /\ emitted[j].at < emitted[k].at
          /\ emitted[j].record["generated_at"] # emitted[k].record["generated_at"]

\* C25: the configuration snapshot of a forecast-metadata record is the one
\* its request was built from: the request counts its window in days and
\* the record's forecast_days is that count, and the hourly variable the
\* request names is the first of the record's hourly_variables (no variable
\* requested when the record's list is empty).
C25_SnapshotMatchesRequest ==
    stream = "weather_forecast" =>
        \A k \in DOMAIN emitted :
            LET r == emitted[k].record
                p == params[emitted[k].loc]
            IN  /\ "forecast_days" \in DOMAIN p
                /\ r["forecast_days"] = p["forecast_days"]
                /\ r["past_days"] = Get(p, "past_days", 0)
                /\ IF "hourly" \in DOMAIN p
                   THEN /\ r["hourly_variables"] # << >>
                        /\ p["hourly"] = CommaJoin(<<r["hourly_variables"][1]>>)
                   ELSE r["hourly_variables"] = << >>

-----------------------------------------------------------------------------
(* Property of the historical date field (checked under SpecParse) *)

\* C27: every record of the historical stream has a date field equal to its
\* timestamp string cut before the 'T', for every timestamp the stream
\* emits.
C27_HistoricalDateField ==
    stream = "weather_historical" =>
        \A k \in DOMAIN emitted :
            LET r == emitted[k].record IN
            /\ r["time"].ty = "str"
            /\ r["date"] = IsoStr("date", r["time"].day, 0, 0, 0, "")

-----------------------------------------------------------------------------
(* Properties of successive runs (checked under SpecRuns) *)

\* C28: over the successive hourly runs of a location under one
\* configuration, each checkpoint being the largest time the run before
\* emitted and the clock never going back, every absolute window has
\* start_hour <= end_hour.
C28_HourlyWindowOrdered ==
    \A l \in LocNames :
        (stream = "weather_hourly" /\ Has(l, "start_hour") /\ Has(l, "end_hour")) =>
            MinuteOf(params[l]["start_hour"]) <= MinuteOf(params[l]["end_hour"])

\* C29: over the successive historical runs of a location, whatever
\* start_date and end_date are configured and whatever checkpoint the
\* emitted records left, every parameter set has start_date <= end_date.
C29_HistoricalWindowOrdered ==
    \A l \in LocNames :
        (stream = "weather_historical" /\ Ran(l)) =>
            MinuteOf(params[l]["start_date"]) <= MinuteOf(params[l]["end_date"])

\* the checkpoint of location l holds a value that is no string
HasNonStringCheckpoint(l) ==
    /\ "replication_key_value" \in DOMAIN state[l]
    /\ state[l]["replication_key_value"].ty = "int"

\* C30: when the hourly, daily or historical stream builds a request over a
\* checkpoint whose value is an integer, it builds the parameters it builds
\* with no checkpoint; so the historical stream under timeformat=unixtime
\* asks again from the configured start_date, or from 30 days before now,
\* however far its checkpoint has moved.
C30_NonStringCheckpointIgnored ==
    [][\A l \in LocNames :
          ( /\ stream \in {"weather_hourly", "weather_daily", "weather_historical"}
            /\ pc[l] = "PENDING" /\ pc'[l] = "REQUESTING"
            /\ HasNonStringCheckpoint(l) ) =>
              /\ params'[l] = get_url_params(stream, config, ContextOf(config, l),
                                             EmptyDict, now)
              /\ stream = "weather_historical" =>
                    params'[l]["start_date"] =
                        IF "start_date" \in DOMAIN config THEN config["start_date"]
                        ELSE IsoStr("date", (now \div 1440) - 30, 0, 0, 0, "")
              /\ AbsoluteKeys \cap DOMAIN params'[l] =
                    IF stream = "weather_historical" THEN {"start_date", "end_date"}
                    ELSE {}]_vars

\* the second historical run of a location under timeformat=unixtime has
\* built its request over the epoch checkpoint its first run left
C30_Witness ==
    \E l \in LocNames :
        /\ stream = "weather_historical"
        /\ run[l] = 1 /\ pc[l] = "REQUESTING"
        /\ HasNonStringCheckpoint(l)
        /\ state[l]["replication_key_value"] # IntVal(1700000000)
        /\ state[l]["replication_key_value"].v \div 86400 > NowDay - 30
        /\ "timeformat" \in DOMAIN config
        /\ "start_date" \notin DOMAIN config
        /\ params[l]["start_date"].day <= NowDay - 29

=============================================================================
